---------------------------- MODULE Spec2Model ----------------------------
(***************************************************************************)
(* DBC-Patcher: the diff engine (core/diff_engine.py), the patch applier   *)
(* (core/patch_applier.py), the reference catalog (core/ref_db.py) and the *)
(* model rebuild of core/dbc_parser.py.                                    *)
(*                                                                         *)
(* Python values are modelled as options: None is the empty tuple and a    *)
(* value v is the one-element tuple <<v>>.  Every attribute of a signal is *)
(* stored in that form, because setattr/getattr in the applier treat every *)
(* attribute as an untyped slot that may hold None.                        *)
(***************************************************************************)
EXTENDS Integers, Sequences, FiniteSets, TLC

VARIABLES
    raw,        \* DBCModel.messages of the raw model given to generate_patch
    cleaned,    \* DBCModel.messages of the cleaned model given to generate_patch
    doc,        \* patch["rules"]: the rule list being applied
    model,      \* DBCModel.messages of the target model
    db,         \* DBCModel.db of the target model (the cantools database)
    refSignals, \* ReferenceDB.signals
    refMessages,\* ReferenceDB.messages
    pc,         \* index in doc of the rule the loop of apply_patch is at
    phase,      \* "init", "applying", "done" or "raised"
    applied,    \* PatchResult.applied
    skipped,    \* PatchResult.skipped
    conflicts,  \* PatchResult.conflicts
    heap        \* the objects of the catalog and of the model it is imported from

vars == <<raw, cleaned, doc, model, db, refSignals, refMessages, pc, phase,
          applied, skipped, conflicts, heap>>

-----------------------------------------------------------------------------
(* Bounds of the explored inputs. *)

MaxRules == 2        \* rules in a hand-written patch document
MaxSignals == 2      \* signals of a message of an input model
MaxChanges == 2      \* entries of the changes map of an update_signal rule
MaxFrameId == 18     \* largest frame id a message_id string is parsed to
MaxSenders == 2      \* nodes in a sender list of a message or of a rule
MaxObjects == 14     \* objects of the models and of the catalog created in a session

-----------------------------------------------------------------------------
(* Python values. *)

None == <<>>
Some(v) == <<v>>
Val(o) == o[1]

(* dict.get / getattr on a record whose absent keys are simply not fields. *)
Get(rec, key) == IF key \in DOMAIN rec THEN rec[key] ELSE None

Range(s) == {s[i] : i \in DOMAIN s}

RECURSIVE SeqOfSet(_)
(* sorted(): the ascending enumeration of a set of integers. *)
SeqOfSet(S) ==
    IF S = {} THEN <<>>
    ELSE LET x == CHOOSE y \in S : \A z \in S : y <= z
         IN  <<x>> \o SeqOfSet(S \ {x})

(* All the orders in which iterating a Python set can yield its elements. *)
Perms(S) ==
    {p \in [1..Cardinality(S) -> S] : \A i, j \in 1..Cardinality(S) : p[i] = p[j] => i = j}

RECURSIVE Flatten(_)
Flatten(ss) == IF ss = <<>> THEN <<>> ELSE Head(ss) \o Flatten(Tail(ss))

-----------------------------------------------------------------------------
(* hex() and int(_, 16). *)

HexDigits == <<"0", "1", "2", "3", "4", "5", "6", "7",
               "8", "9", "a", "b", "c", "d", "e", "f">>

RECURSIVE HexBody(_)
HexBody(n) ==
    IF n < 16 THEN HexDigits[n + 1]
    ELSE HexBody(n \div 16) \o HexDigits[(n % 16) + 1]

(* hex(n): DBCMessage.hex_id and the message_id the diff engine writes. *)
Hex(n) == "0x" \o HexBody(n)

(* int(s, 16) accepts the digits with or without the 0x prefix; any other  *)
(* string raises ValueError, which is reported here as -1.                 *)
ParseHex(s) ==
    IF \E n \in 0..MaxFrameId : s \in {Hex(n), HexBody(n)}
    THEN CHOOSE n \in 0..MaxFrameId : s \in {Hex(n), HexBody(n)}
    ELSE -1

-----------------------------------------------------------------------------
(* The dataclasses of core/dbc_parser.py. *)

(* DBCSignal: every attribute holds an option. *)
DBCSignal(name, start_bit, length, byte_order, is_signed, scale, offset, minimum, maximum, unit, comment, value_table, multiplex, multiplexer_ids, receivers) ==
    [name |-> name, start_bit |-> start_bit, length |-> length,
     byte_order |-> byte_order, is_signed |-> is_signed, scale |-> scale,
     offset |-> offset, minimum |-> minimum, maximum |-> maximum,
     unit |-> unit, comment |-> comment, value_table |-> value_table,
     multiplex |-> multiplex, multiplexer_ids |-> multiplexer_ids,
     receivers |-> receivers]

(* DBCMessage: cycle_time and comment are options, the rest plain values;  *)
(* attributes is a dict, written as a set of <<key, value>> pairs.         *)
DBCMessage(message_id, name, length, cycle_time, comment, is_extended_frame, attributes, senders, signals) ==
    [message_id |-> message_id, name |-> name, length |-> length,
     cycle_time |-> cycle_time, comment |-> comment,
     is_extended_frame |-> is_extended_frame, attributes |-> attributes,
     senders |-> senders, signals |-> signals]

(* getattr(signal, field, None) *)
GetAttr(sig, field) == Get(sig, field)

(* setattr(signal, field, value): an unknown name becomes a new attribute. *)
SetAttr(sig, field, value) ==
    IF field \in DOMAIN sig THEN [sig EXCEPT ![field] = value]
    ELSE [f \in (DOMAIN sig) \cup {field} |-> IF f = field THEN value ELSE sig[f]]

(* The order of str values that sorted() uses, for the names of the model. *)
NameOrder == <<"A", "B", "C", "None">>

NameRank(n) == CHOOSE i \in DOMAIN NameOrder : NameOrder[i] = n

(* The sort key (s.start, s.length, s.name) of _normalize_signals. *)
SignalKeyLess(a, b) ==
    LET sa == Val(a.start_bit) sb == Val(b.start_bit)
        la == Val(a.length)    lb == Val(b.length)
        na == NameRank(Val(a.name)) nb == NameRank(Val(b.name))
    IN  \/ sa < sb
        \/ sa = sb /\ la < lb
        \/ sa = sb /\ la = lb /\ na < nb

RECURSIVE InsertSorted(_, _)
InsertSorted(sorted, sig) ==
    IF sorted = <<>> THEN <<sig>>
    ELSE IF SignalKeyLess(sig, Head(sorted)) THEN <<sig>> \o sorted
    ELSE <<Head(sorted)>> \o InsertSorted(Tail(sorted), sig)

RECURSIVE SortSignals(_)
(* sorted(message.signals, key=...): stable, ascending. *)
SortSignals(sigs) ==
    IF sigs = <<>> THEN <<>>
    ELSE InsertSorted(SortSignals(SubSeq(sigs, 1, Len(sigs) - 1)), sigs[Len(sigs)])

-----------------------------------------------------------------------------
(* The reference catalog, core/ref_db.py. *)

(* ReferenceDB._message_key: f"{frame_id}:{name}" *)
MessageKey(frame_id, name) == ToString(frame_id) \o ":" \o name

(* dict.get on a catalog mapping, which is a function on its keys. *)
Lookup(map, key) == IF key \in DOMAIN map THEN Some(map[key]) ELSE None

(* ReferenceDB.suggest_for_signal *)
SuggestForSignal(signals, signal_name) == Lookup(signals, signal_name)

(* ReferenceDB.suggest_message: the composite key, or else the bare name. *)
SuggestMessage(messages, frame_id, name) ==
    IF Lookup(messages, MessageKey(frame_id, name)) # None
    THEN Lookup(messages, MessageKey(frame_id, name))
    ELSE Lookup(messages, name)

-----------------------------------------------------------------------------
(* The patch applier, core/patch_applier.py. *)

(* str(x) of an optional string: str(None) is the text "None". *)
Str(o) == IF o = None THEN "None" ELSE Val(o)

(* dict.get(key, default) *)
GetOr(rec, key, default) == IF key \in DOMAIN rec THEN rec[key] ELSE Some(default)

(* PatchApplier._signal_from_dict: a payload is a record holding only the  *)
(* keys that are present in the rule's "signal" dict.                      *)
SignalFromDict(data) ==
    DBCSignal(Some(Str(Get(data, "name"))),
              GetOr(data, "start_bit", 0),
              GetOr(data, "length", 1),
              GetOr(data, "byte_order", "intel"),
              GetOr(data, "is_signed", FALSE),
              GetOr(data, "scale", 1),
              GetOr(data, "offset", 0),
              Get(data, "minimum"),
              Get(data, "maximum"),
              Get(data, "unit"),
              Get(data, "comment"),
              GetOr(data, "value_table", {}),
              Get(data, "multiplex"),
              Get(data, "multiplexer_ids"),
              GetOr(data, "receivers", <<>>))

(* The signal _handle_add_signal builds when it has no other source. *)
DefaultSignal(sig_name) ==
    DBCSignal(Some(Str(sig_name)), Some(0), Some(8), Some("intel"), Some(FALSE),
              Some(1), Some(0), None, None, None, None, Some({}),
              None, None, Some(<<>>))

(* The message _handle_add_message builds when it has no other source. *)
DefaultMessage(msg_id, msg_hex) ==
    DBCMessage(msg_id, "MSG_" \o msg_hex, 8, None, None, FALSE, {}, <<>>, <<>>)

(* What a handler returns, with the model it leaves behind.  The status    *)
(* "raise" stands for an exception leaving the handler.                    *)
Result(status, reason, messages, database) ==
    [status |-> status, reason |-> reason, messages |-> messages, db |-> database]

(* rule["message_id"] followed by int(msg_hex, 16) in _message_by_id:      *)
(* -2 is the KeyError/TypeError of a missing id, -1 the ValueError of a    *)
(* string that is no hex number.                                           *)
MessageById(rule) ==
    IF rule.message_id = None THEN -2 ELSE ParseHex(Val(rule.message_id))

(* The search returning the last signal at the locator: the loop without  *)
(* its return at the first hit.                                            *)
FindSignalByMatchLast(message, match) ==
    LET hits == {i \in DOMAIN message.signals :
                    /\ message.signals[i].start_bit = Get(match, "start_bit")
                    /\ message.signals[i].length = Get(match, "length")}
    IN  IF hits = {} THEN 0 ELSE CHOOSE i \in hits : \A j \in hits : j <= i

(* PatchApplier._find_signal_by_match: the index of the first signal whose *)
(* start_bit and length equal the locator's, 0 for None.                   *)
FindSignalByMatch(message, match) ==
    LET hits == {i \in DOMAIN message.signals :
                    /\ message.signals[i].start_bit = Get(match, "start_bit")
                    /\ message.signals[i].length = Get(match, "length")}
    IN  IF hits = {} THEN 0 ELSE CHOOSE i \in hits : \A j \in hits : i <= j

RECURSIVE ApplyChangesUnchecked(_, _)
(* The loop with the comparison against "from" left out. *)
ApplyChangesUnchecked(signal, changes) ==
    IF changes = <<>> THEN [status |-> "applied", reason |-> None, signal |-> signal]
    ELSE ApplyChangesUnchecked(SetAttr(signal, Head(changes).field, Get(Head(changes), "to")),
                               Tail(changes))

RECURSIVE ApplyChangesKeepGoing(_, _)
(* The loop reporting the conflict of a mismatch only after it has gone    *)
(* through the remaining entries.                                          *)
ApplyChangesKeepGoing(signal, changes) ==
    IF changes = <<>> THEN [status |-> "applied", reason |-> None, signal |-> signal]
    ELSE LET change == Head(changes)
             expected == Get(change, "from")
             current == GetAttr(signal, change.field)
         IN  IF expected # None /\ current # expected
             THEN [status |-> "conflict",
                   reason |-> Some(<<"expected", expected, "but found", current>>),
                   signal |-> ApplyChangesKeepGoing(signal, Tail(changes)).signal]
             ELSE ApplyChangesKeepGoing(SetAttr(signal, change.field, Get(change, "to")),
                                        Tail(changes))

(* The loop made atomic: every "from" is compared first, and a mismatch    *)
(* leaves the signal as it was.                                            *)
ApplyChangesAtomic(signal, changes) ==
    LET bad == {k \in DOMAIN changes :
                   /\ Get(changes[k], "from") # None
                   /\ GetAttr(signal, changes[k].field) # Get(changes[k], "from")}
        first == CHOOSE k \in bad : \A j \in bad : k <= j
    IN  IF bad = {} THEN ApplyChangesUnchecked(signal, changes)
        ELSE [status |-> "conflict",
              reason |-> Some(<<"expected", Get(changes[first], "from"), "but found",
                                GetAttr(signal, changes[first].field)>>),
              signal |-> signal]

RECURSIVE ApplyChanges(_, _)
(* The loop over changes.items() of _handle_update_signal. *)
ApplyChanges(signal, changes) ==
    IF changes = <<>> THEN [status |-> "applied", reason |-> None, signal |-> signal]
    ELSE LET change == Head(changes)
             expected == Get(change, "from")
             new_val == Get(change, "to")
             current == GetAttr(signal, change.field)
         IN  IF expected # None /\ current # expected
             THEN [status |-> "conflict",
                   reason |-> Some(<<"expected", expected, "but found", current>>),
                   signal |-> signal]
             ELSE ApplyChanges(SetAttr(signal, change.field, new_val), Tail(changes))

(* model.messages with the signal at index i of message msg_id replaced. *)
WithSignal(messages, msg_id, i, signal) ==
    [messages EXCEPT ![msg_id].signals[i] = signal]

(* PatchApplier._handle_update_signal *)
UpdateSignal(messages, database, rule) ==
    LET msg_id == MessageById(rule)
    IN  IF msg_id < 0 THEN Result("raise", None, messages, database)
        ELSE IF msg_id \notin DOMAIN messages
        THEN Result("skipped", Some("message missing"), messages, database)
        ELSE LET match == rule.signal_match
                 i == IF match # None THEN FindSignalByMatch(messages[msg_id], Val(match)) ELSE 0
             IN  IF i = 0
                 THEN Result("skipped", Some("signal missing"), messages, database)
                 ELSE LET r == ApplyChanges(messages[msg_id].signals[i], rule.changes)
                      IN  Result(r.status, r.reason,
                                 WithSignal(messages, msg_id, i, r.signal), database)

(* any(sig.name == sig_name for sig in message.signals) *)
HasSignalNamed(message, sig_name) ==
    \E i \in DOMAIN message.signals : message.signals[i].name = sig_name

(* "not x" for an optional string: None and the empty string are falsy. *)
Falsy(o) == o = None \/ o = Some("")

(* PatchApplier._handle_add_signal, which _handle_add_signal_if_missing    *)
(* calls: the catalog template is tried before the rule's own payload.     *)
AddSignal(messages, database, signals, rule) ==
    LET msg_id == MessageById(rule)
        sig_name == rule.signal_name
    IN  IF msg_id < 0 THEN Result("raise", None, messages, database)
        ELSE IF msg_id \notin DOMAIN messages
        THEN Result("skipped", Some("message missing"), messages, database)
        ELSE IF Falsy(sig_name)
        THEN Result("skipped", Some("signal unspecified"), messages, database)
        ELSE IF HasSignalNamed(messages[msg_id], sig_name)
        THEN Result("skipped", Some("already exists"), messages, database)
        ELSE LET template == SuggestForSignal(signals, Str(sig_name))
                 new_signal ==
                     IF template # None THEN Val(template)
                     ELSE IF rule.signal # None THEN SignalFromDict(Val(rule.signal))
                     ELSE DefaultSignal(sig_name)
             IN  Result("applied", None,
                        [messages EXCEPT ![msg_id].signals = Append(@, new_signal)],
                        database)

(* [s for s in message.signals if s.name != sig_name] *)
SignalsNotNamed(sigs, sig_name) ==
    LET Keep(s) == s.name # sig_name IN SelectSeq(sigs, Keep)

(* PatchApplier._handle_remove_signal *)
RemoveSignal(messages, database, rule) ==
    LET msg_id == MessageById(rule)
    IN  IF msg_id < 0 THEN Result("raise", None, messages, database)
        ELSE IF msg_id \notin DOMAIN messages
        THEN Result("skipped", Some("message missing"), messages, database)
        ELSE LET kept == SignalsNotNamed(messages[msg_id].signals, rule.signal_name)
             IN  IF Len(kept) = Len(messages[msg_id].signals)
                 THEN Result("skipped", Some("not found"), messages, database)
                 ELSE Result("applied", None,
                             [messages EXCEPT ![msg_id].signals = kept], database)

(* rule.get("signal_match", {}): an absent locator is the empty dict. *)
MatchOrEmpty(rule) ==
    IF rule.signal_match = None THEN [start_bit |-> None, length |-> None]
    ELSE Val(rule.signal_match)

(* The handler writing the new name to every signal of the message once   *)
(* the locator has found one.                                              *)
RenameSignalAll(messages, database, rule) ==
    LET msg_id == MessageById(rule)
    IN  IF msg_id < 0 THEN Result("raise", None, messages, database)
        ELSE IF msg_id \notin DOMAIN messages
        THEN Result("skipped", Some("message missing"), messages, database)
        ELSE LET i == FindSignalByMatch(messages[msg_id], MatchOrEmpty(rule))
             IN  IF i = 0
                 THEN Result("skipped", Some("signal missing"), messages, database)
                 ELSE IF Falsy(rule.signal_name)
                 THEN Result("skipped", Some("new name missing"), messages, database)
                 ELSE Result("applied", None,
                             [messages EXCEPT ![msg_id].signals =
                                 [k \in DOMAIN @ |->
                                     [@[k] EXCEPT !.name = Some(Str(rule.signal_name))]]],
                             database)

(* The handler writing str(new_name) to the signal before it looks        *)
(* whether the rule has a new name.                                        *)
RenameSignalWriteFirst(messages, database, rule) ==
    LET msg_id == MessageById(rule)
    IN  IF msg_id < 0 THEN Result("raise", None, messages, database)
        ELSE IF msg_id \notin DOMAIN messages
        THEN Result("skipped", Some("message missing"), messages, database)
        ELSE LET i == FindSignalByMatch(messages[msg_id], MatchOrEmpty(rule))
                 written == [messages EXCEPT ![msg_id].signals[i].name =
                                                 Some(Str(rule.signal_name))]
             IN  IF i = 0
                 THEN Result("skipped", Some("signal missing"), messages, database)
                 ELSE IF Falsy(rule.signal_name)
                 THEN Result("skipped", Some("new name missing"), written, database)
                 ELSE Result("applied", None, written, database)

(* PatchApplier._handle_rename_signal *)
RenameSignal(messages, database, rule) ==
    LET msg_id == MessageById(rule)
    IN  IF msg_id < 0 THEN Result("raise", None, messages, database)
        ELSE IF msg_id \notin DOMAIN messages
        THEN Result("skipped", Some("message missing"), messages, database)
        ELSE LET i == FindSignalByMatch(messages[msg_id], MatchOrEmpty(rule))
             IN  IF i = 0
                 THEN Result("skipped", Some("signal missing"), messages, database)
                 ELSE IF Falsy(rule.signal_name)
                 THEN Result("skipped", Some("new name missing"), messages, database)
                 ELSE Result("applied", None,
                             [messages EXCEPT ![msg_id].signals[i].name =
                                                  Some(Str(rule.signal_name))],
                             database)

(* changes.get("senders", {}): the entry of the changes map for senders. *)
SendersChange(changes) ==
    LET hits == {i \in DOMAIN changes : changes[i].field = "senders"}
    IN  IF hits = {} THEN [field |-> "senders"]
        ELSE changes[CHOOSE i \in hits : TRUE]

(* The handler with a rollback: a conflict puts the model back to what its *)
(* database holds, the messages as they were loaded.                       *)
UpdateMessageSendersRollback(messages, database, rule) ==
    LET msg_id == MessageById(rule)
    IN  IF msg_id < 0 THEN Result("raise", None, messages, database)
        ELSE IF msg_id \notin DOMAIN messages
        THEN Result("skipped", Some("message missing"), messages, database)
        ELSE LET change == SendersChange(rule.changes)
                 expected == Get(change, "from")
                 new_val == Get(change, "to")
                 current == Some(messages[msg_id].senders)
             IN  IF expected # None /\ current # expected
                 THEN Result("conflict",
                             Some(<<"expected", expected, "but found", current>>),
                             [id \in {database[i].message_id : i \in DOMAIN database} |->
                                 database[CHOOSE i \in DOMAIN database :
                                              database[i].message_id = id]],
                             database)
                 ELSE Result("applied", None,
                             [messages EXCEPT ![msg_id].senders =
                                 IF new_val = None THEN <<>> ELSE Val(new_val)],
                             database)

(* The handler comparing the recorded and the current senders as sets of   *)
(* nodes.                                                                  *)
UpdateMessageSendersAsSet(messages, database, rule) ==
    LET msg_id == MessageById(rule)
    IN  IF msg_id < 0 THEN Result("raise", None, messages, database)
        ELSE IF msg_id \notin DOMAIN messages
        THEN Result("skipped", Some("message missing"), messages, database)
        ELSE LET change == SendersChange(rule.changes)
                 expected == Get(change, "from")
                 new_val == Get(change, "to")
                 current == Some(messages[msg_id].senders)
             IN  IF expected # None /\ Range(Val(current)) # Range(Val(expected))
                 THEN Result("conflict",
                             Some(<<"expected", expected, "but found", current>>),
                             messages, database)
                 ELSE Result("applied", None,
                             [messages EXCEPT ![msg_id].senders =
                                 IF new_val = None THEN <<>> ELSE Val(new_val)],
                             database)

(* PatchApplier._handle_update_message_senders *)
UpdateMessageSenders(messages, database, rule) ==
    LET msg_id == MessageById(rule)
    IN  IF msg_id < 0 THEN Result("raise", None, messages, database)
        ELSE IF msg_id \notin DOMAIN messages
        THEN Result("skipped", Some("message missing"), messages, database)
        ELSE LET change == SendersChange(rule.changes)
                 expected == Get(change, "from")
                 new_val == Get(change, "to")
                 current == Some(messages[msg_id].senders)
             IN  IF expected # None /\ current # expected
                 THEN Result("conflict",
                             Some(<<"expected", expected, "but found", current>>),
                             messages, database)
                 ELSE Result("applied", None,
                             [messages EXCEPT ![msg_id].senders =
                                 IF new_val = None THEN <<>> ELSE Val(new_val)],
                             database)

(* PatchApplier._handle_remove_message *)
RemoveMessage(messages, database, rule) ==
    IF Falsy(rule.message_id)
    THEN Result("skipped", Some("message id missing"), messages, database)
    ELSE LET msg_id == ParseHex(Val(rule.message_id))
         IN  IF msg_id < 0 THEN Result("raise", None, messages, database)
             ELSE IF msg_id \notin DOMAIN messages
             THEN Result("skipped", Some("not found"), messages, database)
             ELSE Result("applied", None,
                         [i \in (DOMAIN messages) \ {msg_id} |-> messages[i]],
                         database)

-----------------------------------------------------------------------------
(* The cantools database behind a model.  It is written as the list of its *)
(* messages, each in the vocabulary of DBCMessage.                         *)

(* The order of node names that sorted() uses, for the nodes of the model. *)
NodeOrder == <<"N1", "N2", "Vector__XXX">>

NodeRank(n) == CHOOSE i \in DOMAIN NodeOrder : NodeOrder[i] = n

RECURSIVE SortNodes(_)
(* sorted(sig.receivers) *)
SortNodes(nodes) ==
    IF nodes = <<>> THEN <<>>
    ELSE LET rest == SortNodes(SubSeq(nodes, 1, Len(nodes) - 1))
             n == nodes[Len(nodes)]
             LessEq(x) == NodeRank(x) <= NodeRank(n)
             Greater(x) == NodeRank(x) > NodeRank(n)
         IN  SelectSeq(rest, LessEq) \o <<n>> \o SelectSeq(rest, Greater)

(* One signal built by DBCParser._normalize_signals: the fifteen dataclass *)
(* attributes and nothing else, receivers sorted.                          *)
NormalizeSignal(s) ==
    DBCSignal(s.name, s.start_bit, s.length, s.byte_order, s.is_signed, s.scale,
              s.offset, s.minimum, s.maximum, s.unit, s.comment, s.value_table,
              s.multiplex, s.multiplexer_ids, Some(SortNodes(Val(s.receivers))))

(* DBCParser._normalize_signals *)
NormalizeSignals(sigs) ==
    LET sorted == SortSignals(sigs)
    IN  [i \in DOMAIN sorted |-> NormalizeSignal(sorted[i])]

(* DBCParser._build_model_from_db: messages are entered in ascending       *)
(* frame id, a later message of the same id replacing the earlier one.     *)
BuildModelFromDb(database) ==
    LET ids == {database[i].message_id : i \in DOMAIN database}
        Last(id) == CHOOSE i \in DOMAIN database :
                        /\ database[i].message_id = id
                        /\ \A j \in DOMAIN database : database[j].message_id = id => j <= i
    IN  [id \in ids |->
            LET msg == database[Last(id)]
            IN  DBCMessage(msg.message_id, msg.name, msg.length, msg.cycle_time,
                           msg.comment, msg.is_extended_frame, msg.attributes,
                           msg.senders, NormalizeSignals(msg.signals))]

(* The database a freshly loaded model carries. *)
DatabaseOf(messages) ==
    LET ids == SeqOfSet(DOMAIN messages) IN [i \in DOMAIN ids |-> messages[ids[i]]]

(* One SG_ line of generate_dbc_text_from_dict read back by the parser:    *)
(* the byte order is a flag, a missing range is written 0|0 and a missing  *)
(* unit as "", an empty comment is not written.                            *)
TextSignal(s) ==
    LET mn == IF s.minimum = None THEN 0 ELSE Val(s.minimum)
        mx == IF s.maximum = None THEN 0 ELSE Val(s.maximum)
    IN  DBCSignal(s.name, s.start_bit, s.length,
                  IF s.byte_order = Some("motorola") THEN Some("motorola") ELSE Some("intel"),
                  s.is_signed, s.scale, s.offset,
                  IF mn = 0 /\ mx = 0 THEN None ELSE Some(mn),
                  IF mn = 0 /\ mx = 0 THEN None ELSE Some(mx),
                  IF Falsy(s.unit) THEN None ELSE s.unit,
                  IF Falsy(s.comment) THEN None ELSE s.comment,
                  s.value_table, s.multiplex, s.multiplexer_ids, s.receivers)

(* One BO_ block of generate_dbc_text_from_dict read back by the parser:   *)
(* only the first sender is written, as the transmitter.                   *)
TextMessage(m) ==
    DBCMessage(m.message_id, m.name, m.length, m.cycle_time,
               IF Falsy(m.comment) THEN None ELSE m.comment,
               FALSE, m.attributes,
               IF m.senders = <<>> \/ m.senders[1] = "Vector__XXX"
               THEN <<>> ELSE <<m.senders[1]>>,
               [i \in DOMAIN m.signals |-> TextSignal(m.signals[i])])

(* model_to_dict, generate_dbc_text_from_dict and cantools.load_string in  *)
(* update_database_from_model: the database parsed from the model's text.  *)
TextDatabase(messages) ==
    LET ids == SeqOfSet(DOMAIN messages)
    IN  [i \in DOMAIN ids |-> TextMessage(messages[ids[i]])]

(* int(signal.get("start_bit", 0)) and int(signal.get("length", 1)) raise  *)
(* TypeError on None.                                                      *)
TextRaises(messages) ==
    \E id \in DOMAIN messages : \E i \in DOMAIN messages[id].signals :
        \/ messages[id].signals[i].start_bit = None
        \/ messages[id].signals[i].length = None

(* merge_utils.insert_message_into_database *)
InsertMessageIntoDatabase(database, message) == Append(database, message)

(* build_database_from_dict, as used by _cantools_message_from_dict: the   *)
(* cantools message described by a message dict.                           *)
CantoolsMessageFromDict(data) ==
    DBCMessage(data.message_id, data.name, data.length, data.cycle_time,
               data.comment, data.is_extended_frame, data.attributes,
               data.senders, data.signals)

(* DBCParser._message_to_dict *)
MessageToDict(message) == message

(* PatchApplier._refresh_model after an insertion into model.db *)
RefreshModel(status, database) ==
    Result(status, None, BuildModelFromDb(database), database)

(* rule.get("name") or "" *)
NameOrEmpty(rule) == IF Falsy(rule.name) THEN "" ELSE Val(rule.name)

(* The handler building the default message without storing it in         *)
(* model.messages.                                                         *)
AddMessageDetached(messages, database, refmsgs, rule) ==
    IF Falsy(rule.message_id)
    THEN Result("skipped", Some("message id missing"), messages, database)
    ELSE LET msg_hex == Val(rule.message_id)
             msg_id == ParseHex(msg_hex)
             suggestion == SuggestMessage(refmsgs, msg_id, NameOrEmpty(rule))
         IN  IF msg_id < 0 THEN Result("raise", None, messages, database)
             ELSE IF msg_id \in DOMAIN messages
             THEN Result("skipped", Some("message exists"), messages, database)
             ELSE IF rule.message # None
             THEN RefreshModel("applied",
                      InsertMessageIntoDatabase(database,
                          CantoolsMessageFromDict(Val(rule.message))))
             ELSE IF suggestion # None
             THEN RefreshModel("applied",
                      InsertMessageIntoDatabase(database,
                          CantoolsMessageFromDict(MessageToDict(Val(suggestion)))))
             ELSE Result("applied", None, messages, database)

(* The handler storing the message of the payload or of the catalog in     *)
(* model.messages under the rule's id, without going through the database. *)
AddMessageUnderRuleId(messages, database, refmsgs, rule) ==
    IF Falsy(rule.message_id)
    THEN Result("skipped", Some("message id missing"), messages, database)
    ELSE LET msg_hex == Val(rule.message_id)
             msg_id == ParseHex(msg_hex)
             suggestion == SuggestMessage(refmsgs, msg_id, NameOrEmpty(rule))
             new_message ==
                 IF rule.message # None THEN CantoolsMessageFromDict(Val(rule.message))
                 ELSE IF suggestion # None
                 THEN CantoolsMessageFromDict(MessageToDict(Val(suggestion)))
                 ELSE DefaultMessage(msg_id, msg_hex)
         IN  IF msg_id < 0 THEN Result("raise", None, messages, database)
             ELSE IF msg_id \in DOMAIN messages
             THEN Result("skipped", Some("message exists"), messages, database)
             ELSE Result("applied", None,
                         [i \in (DOMAIN messages) \cup {msg_id} |->
                             IF i = msg_id THEN new_message ELSE messages[i]],
                         database)

(* PatchApplier._handle_add_message *)
AddMessage(messages, database, refmsgs, rule) ==
    IF Falsy(rule.message_id)
    THEN Result("skipped", Some("message id missing"), messages, database)
    ELSE LET msg_hex == Val(rule.message_id)
             msg_id == ParseHex(msg_hex)
             suggestion == SuggestMessage(refmsgs, msg_id, NameOrEmpty(rule))
         IN  IF msg_id < 0 THEN Result("raise", None, messages, database)
             ELSE IF msg_id \in DOMAIN messages
             THEN Result("skipped", Some("message exists"), messages, database)
             ELSE IF rule.message # None
             THEN RefreshModel("applied",
                      InsertMessageIntoDatabase(database,
                          CantoolsMessageFromDict(Val(rule.message))))
             ELSE IF suggestion # None
             THEN RefreshModel("applied",
                      InsertMessageIntoDatabase(database,
                          CantoolsMessageFromDict(MessageToDict(Val(suggestion)))))
             ELSE Result("applied", None,
                         [i \in (DOMAIN messages) \cup {msg_id} |->
                             IF i = msg_id THEN DefaultMessage(msg_id, msg_hex)
                             ELSE messages[i]],
                         database)

(* DBCParser.model_to_dict: the message dicts in ascending frame id. *)
ModelToDict(messages) ==
    LET ids == SeqOfSet(DOMAIN messages)
    IN  [i \in DOMAIN ids |-> MessageToDict(messages[ids[i]])]

(* build_database_from_dict: the database of the messages described by a   *)
(* list of message dicts.                                                  *)
BuildDatabaseFromDict(dicts) ==
    [i \in DOMAIN dicts |-> CantoolsMessageFromDict(dicts[i])]

(* The handler storing the payload also when the model has no message of   *)
(* that id.                                                                *)
UpdateMessageUpsert(messages, database, rule) ==
    IF Falsy(rule.message_id)
    THEN Result("skipped", Some("message id missing"), messages, database)
    ELSE LET msg_id == ParseHex(Val(rule.message_id))
             db_dict == ModelToDict(messages)
             replaced == [i \in DOMAIN db_dict |->
                             IF db_dict[i].message_id = msg_id
                             THEN Val(rule.message) ELSE db_dict[i]]
         IN  IF msg_id < 0 THEN Result("raise", None, messages, database)
             ELSE IF rule.message = None
             THEN Result("skipped", Some("no message payload"), messages, database)
             ELSE IF msg_id \notin DOMAIN messages
             THEN RefreshModel("applied",
                      BuildDatabaseFromDict(Append(db_dict, Val(rule.message))))
             ELSE RefreshModel("applied", BuildDatabaseFromDict(replaced))

(* PatchApplier._handle_update_message *)
UpdateMessage(messages, database, rule) ==
    IF Falsy(rule.message_id)
    THEN Result("skipped", Some("message id missing"), messages, database)
    ELSE LET msg_id == ParseHex(Val(rule.message_id))
             db_dict == ModelToDict(messages)
             replaced == [i \in DOMAIN db_dict |->
                             IF db_dict[i].message_id = msg_id
                             THEN Val(rule.message) ELSE db_dict[i]]
         IN  IF msg_id < 0 THEN Result("raise", None, messages, database)
             ELSE IF msg_id \notin DOMAIN messages
             THEN Result("skipped", Some("message missing"), messages, database)
             ELSE IF rule.message = None
             THEN Result("skipped", Some("no message payload"), messages, database)
             ELSE RefreshModel("applied", BuildDatabaseFromDict(replaced))

-----------------------------------------------------------------------------
(* The diff engine, core/diff_engine.py. *)

(* A rule of a patch document: every key holds an option, None for a key   *)
(* the dict does not have; changes is the list of the entries of the       *)
(* changes map, in the order of the map.                                   *)
Rule(op, message_id, signal_match, signal_name, changes, signal, message, name) ==
    [op |-> op, message_id |-> message_id, signal_match |-> signal_match,
     signal_name |-> signal_name, changes |-> changes, signal |-> signal,
     message |-> message, name |-> name]

(* DiffRule(...).to_dict(): empty values are left out of the dict. *)
DiffRule(op, message_id, signal_match, signal_name, changes) ==
    Rule(Some(op), Some(message_id), signal_match,
         IF Falsy(signal_name) THEN None ELSE signal_name,
         changes, None, None, None)

(* The fields _compare_signal walks, in its order. *)
CompareFields ==
    <<"name", "start_bit", "length", "byte_order", "is_signed", "scale", "offset",
      "minimum", "maximum", "unit", "comment", "value_table", "receivers">>

(* _compare_signal returning one rule for each field that differs. *)
CompareSignalPerField(message, raw_sig, clean_sig) ==
    LET Differs(field) == raw_sig[field] # clean_sig[field]
        changed == SelectSeq(CompareFields, Differs)
    IN  [i \in DOMAIN changed |->
            DiffRule("update_signal", Hex(message.message_id),
                     Some([start_bit |-> raw_sig.start_bit, length |-> raw_sig.length]),
                     None,
                     <<[field |-> changed[i],
                        from |-> raw_sig[changed[i]],
                        to |-> clean_sig[changed[i]]]>>)]

(* DiffEngine._compare_signal *)
CompareSignal(message, raw_sig, clean_sig) ==
    LET Differs(field) == raw_sig[field] # clean_sig[field]
        changed == SelectSeq(CompareFields, Differs)
        changes == [i \in DOMAIN changed |->
                       [field |-> changed[i],
                        from |-> raw_sig[changed[i]],
                        to |-> clean_sig[changed[i]]]]
    IN  IF changes = <<>> THEN <<>>
        ELSE <<DiffRule("update_signal", Hex(message.message_id),
                        Some([start_bit |-> raw_sig.start_bit, length |-> raw_sig.length]),
                        None, changes)>>

(* DiffEngine._detect_renames: every pair of a raw and a cleaned signal    *)
(* with different names and the same start_bit, length and byte_order, in  *)
(* the order of the two nested loops.                                      *)
DetectRenames(raw_signals, clean_signals) ==
    LET Row(i) ==
            LET Hit(c) == /\ raw_signals[i].name # c.name
                          /\ raw_signals[i].start_bit = c.start_bit
                          /\ raw_signals[i].length = c.length
                          /\ raw_signals[i].byte_order = c.byte_order
                hits == SelectSeq(clean_signals, Hit)
            IN  [j \in DOMAIN hits |-> <<raw_signals[i], hits[j]>>]
    IN  Flatten([i \in DOMAIN raw_signals |-> Row(i)])

(* {s.name: s for s in signals}[name]: the last signal of that name. *)
SignalNamed(sigs, name) ==
    sigs[CHOOSE i \in DOMAIN sigs :
            /\ sigs[i].name = name
            /\ \A j \in DOMAIN sigs : sigs[j].name = name => j <= i]

(* DiffEngine._compare_message.  The three loops over a set of names run   *)
(* in the iteration order of a Python set of strings, which is any order;  *)
(* the result is the set of rule lists the call can return.                *)
CompareMessage(raw_msg, clean_msg) ==
    LET raw_names == {raw_msg.signals[i].name : i \in DOMAIN raw_msg.signals}
        clean_names == {clean_msg.signals[i].name : i \in DOMAIN clean_msg.signals}
        hex_id == Hex(clean_msg.message_id)
        senders ==
            IF raw_msg.senders # clean_msg.senders
            THEN <<DiffRule("update_message_senders", hex_id, None, None,
                            <<[field |-> "senders", from |-> Some(raw_msg.senders),
                               to |-> Some(clean_msg.senders)]>>)>>
            ELSE <<>>
        renamed == DetectRenames(raw_msg.signals, clean_msg.signals)
        renames == [i \in DOMAIN renamed |->
                       DiffRule("rename_signal", hex_id,
                                Some([start_bit |-> renamed[i][1].start_bit,
                                      length |-> renamed[i][1].length]),
                                renamed[i][2].name, <<>>)]
    IN  {  [i \in DOMAIN added |->
                DiffRule("add_signal_if_missing", hex_id, None, added[i], <<>>)]
        \o [i \in DOMAIN removed |->
                DiffRule("remove_signal", hex_id, None, removed[i], <<>>)]
        \o senders
        \o Flatten([i \in DOMAIN common |->
                CompareSignal(raw_msg, SignalNamed(raw_msg.signals, common[i]),
                              SignalNamed(clean_msg.signals, common[i]))])
        \o renames :
           added \in Perms(clean_names \ raw_names),
           removed \in Perms(raw_names \ clean_names),
           common \in Perms(raw_names \cap clean_names) }

RECURSIVE Concats(_)
(* All concatenations of one list from each set of a list of sets. *)
Concats(sets) ==
    IF sets = <<>> THEN {<<>>}
    ELSE {h \o t : h \in Head(sets), t \in Concats(Tail(sets))}

(* generate_patch with its first two loops exchanged. *)
GeneratePatchRemovesFirst(raw_messages, clean_messages) ==
    LET raw_ids == DOMAIN raw_messages
        clean_ids == DOMAIN clean_messages
        added == SeqOfSet(clean_ids \ raw_ids)
        removed == SeqOfSet(raw_ids \ clean_ids)
        both == SeqOfSet(clean_ids \cap raw_ids)
        head ==    [i \in DOMAIN removed |->
                       DiffRule("remove_message", Hex(removed[i]), None, None, <<>>)]
                \o [i \in DOMAIN added |->
                       DiffRule("add_message", Hex(added[i]), None, None, <<>>)]
    IN  {head \o t : t \in Concats([i \in DOMAIN both |->
                            CompareMessage(raw_messages[both[i]], clean_messages[both[i]])])}

(* DiffEngine.generate_patch: the rule lists the call can return. *)
GeneratePatch(raw_messages, clean_messages) ==
    LET raw_ids == DOMAIN raw_messages
        clean_ids == DOMAIN clean_messages
        added == SeqOfSet(clean_ids \ raw_ids)
        removed == SeqOfSet(raw_ids \ clean_ids)
        both == SeqOfSet(clean_ids \cap raw_ids)
        head ==    [i \in DOMAIN added |->
                       DiffRule("add_message", Hex(added[i]), None, None, <<>>)]
                \o [i \in DOMAIN removed |->
                       DiffRule("remove_message", Hex(removed[i]), None, None, <<>>)]
    IN  {head \o t : t \in Concats([i \in DOMAIN both |->
                            CompareMessage(raw_messages[both[i]], clean_messages[both[i]])])}

-----------------------------------------------------------------------------
(* PatchApplier.apply_patch, one step per rule of the document. *)

(* The op tags for which PatchApplier has a _handle_<op> method. *)
HandlerOps ==
    {"update_signal", "add_signal_if_missing", "add_signal", "remove_signal",
     "rename_signal", "update_message_senders", "add_message", "remove_message",
     "update_message"}

(* getattr(self, f"_handle_{op}", None) finds a handler. *)
HasHandler(op) == op # None /\ Val(op) \in HandlerOps

(* The entry appended to a report list. *)
Info(rule, reason) == [rule |-> rule, reason |-> reason]

(* The loop of apply_patch is at a rule with this op tag. *)
AtRule(ops) ==
    /\ phase = "applying"
    /\ pc <= Len(doc)
    /\ doc[pc].op # None
    /\ Val(doc[pc].op) \in ops

(* The filing with "if" in the place of "elif": the else branch then also  *)
(* takes the outcome of an applied rule, which is no conflict.             *)
DispatchWithoutElif(res) ==
    /\ model' = res.messages
    /\ db' = res.db
    /\ IF res.status = "raise"
       THEN /\ phase' = "raised"
            /\ UNCHANGED <<pc, applied, skipped, conflicts>>
       ELSE /\ phase' = phase
            /\ pc' = pc + 1
            /\ applied' = IF res.status = "applied"
                          THEN Append(applied, Info(doc[pc], res.reason)) ELSE applied
            /\ conflicts' = IF res.status = "conflict"
                            THEN Append(conflicts, Info(doc[pc], res.reason)) ELSE conflicts
            /\ skipped' = IF res.status # "conflict"
                          THEN Append(skipped, Info(doc[pc], res.reason)) ELSE skipped
    /\ UNCHANGED <<raw, cleaned, doc, refSignals, refMessages, heap>>

(* Lines 49-55 of apply_patch: file the outcome of the handler and go on   *)
(* to the next rule; an exception leaves apply_patch without a result.     *)
Dispatch(res) ==
    /\ model' = res.messages
    /\ db' = res.db
    /\ IF res.status = "raise"
       THEN /\ phase' = "raised"
            /\ UNCHANGED <<pc, applied, skipped, conflicts>>
       ELSE /\ phase' = phase
            /\ pc' = pc + 1
            /\ applied' = IF res.status = "applied"
                          THEN Append(applied, Info(doc[pc], res.reason)) ELSE applied
            /\ conflicts' = IF res.status = "conflict"
                            THEN Append(conflicts, Info(doc[pc], res.reason)) ELSE conflicts
            /\ skipped' = IF res.status \notin {"applied", "conflict"}
                          THEN Append(skipped, Info(doc[pc], res.reason)) ELSE skipped
    /\ UNCHANGED <<raw, cleaned, doc, refSignals, refMessages, heap>>

HandleUpdateSignal ==
    /\ AtRule({"update_signal"})
    /\ Dispatch(UpdateSignal(model, db, doc[pc]))

HandleAddSignalIfMissing ==
    /\ AtRule({"add_signal_if_missing", "add_signal"})
    /\ Dispatch(AddSignal(model, db, refSignals, doc[pc]))

HandleRemoveSignal ==
    /\ AtRule({"remove_signal"})
    /\ Dispatch(RemoveSignal(model, db, doc[pc]))

HandleRenameSignal ==
    /\ AtRule({"rename_signal"})
    /\ Dispatch(RenameSignal(model, db, doc[pc]))

HandleUpdateMessageSenders ==
    /\ AtRule({"update_message_senders"})
    /\ Dispatch(UpdateMessageSenders(model, db, doc[pc]))

HandleAddMessage ==
    /\ AtRule({"add_message"})
    /\ Dispatch(AddMessage(model, db, refMessages, doc[pc]))

HandleRemoveMessage ==
    /\ AtRule({"remove_message"})
    /\ Dispatch(RemoveMessage(model, db, doc[pc]))

HandleUpdateMessage ==
    /\ AtRule({"update_message"})
    /\ Dispatch(UpdateMessage(model, db, doc[pc]))

(* The outcome had getattr no default: AttributeError on an unknown op. *)
NoHandlerRaises(messages, database) == Result("raise", None, messages, database)

(* Lines 46-48 of apply_patch: the outcome of a rule without handler. *)
NoHandler(messages, database) ==
    Result("skipped", Some("unsupported"), messages, database)

Unsupported ==
    /\ phase = "applying"
    /\ pc <= Len(doc)
    /\ ~HasHandler(doc[pc].op)
    /\ Dispatch(NoHandler(model, db))

(* Line 57 of apply_patch, DBCParser.update_database_from_model: after the *)
(* last rule the model is rebuilt from its own text.                       *)
UpdateDatabaseFromModel ==
    /\ phase = "applying"
    /\ pc = Len(doc) + 1
    /\ IF TextRaises(model)
       THEN phase' = "raised" /\ UNCHANGED <<model, db>>
       ELSE /\ phase' = "done"
            /\ db' = TextDatabase(model)
            /\ model' = BuildModelFromDb(TextDatabase(model))
    /\ UNCHANGED <<raw, cleaned, doc, refSignals, refMessages, pc,
                   applied, skipped, conflicts, heap>>

(* generate_patch deleting from raw, as it goes, the messages for which it *)
(* writes a remove_message rule.                                           *)
GenerateConsuming ==
    /\ phase = "init"
    /\ doc' \in GeneratePatch(raw, cleaned)
    /\ raw' = [id \in DOMAIN raw \cap DOMAIN cleaned |-> raw[id]]
    /\ model' = raw
    /\ db' = DatabaseOf(raw)
    /\ pc' = 1
    /\ phase' = "applying"
    /\ UNCHANGED <<cleaned, refSignals, refMessages, applied, skipped, conflicts, heap>>

(* generate_patch(raw, cleaned), whose rules are then applied to a copy of *)
(* raw as loaded.                                                          *)
Generate ==
    /\ phase = "init"
    /\ doc' \in GeneratePatch(raw, cleaned)
    /\ model' = raw
    /\ db' = DatabaseOf(raw)
    /\ pc' = 1
    /\ phase' = "applying"
    /\ UNCHANGED <<raw, cleaned, refSignals, refMessages, applied, skipped, conflicts,
                   heap>>

-----------------------------------------------------------------------------
(* The input models: what load_dbc returns, signals in the order of        *)
(* _normalize_signals and every value one that the text of the model       *)
(* reads back unchanged.                                                   *)

SignalNames == {"A", "B", "C"}
StartBits == {0, 8}

(* An unsigned little-endian 8-bit signal without range, unit or comment. *)
InputSignal(name, start_bit, scale) ==
    DBCSignal(Some(name), Some(start_bit), Some(8), Some("intel"), Some(FALSE),
              Some(scale), Some(0), None, None, None, None, Some({}),
              None, None, Some(<<>>))

InputSignals(scales) ==
    {InputSignal(n, sb, sc) : n \in SignalNames, sb \in StartBits, sc \in scales}

(* The signal lists of a loaded message: names unique, order as sorted. *)
SignalLists(S) ==
    UNION {{s \in [1..k -> S] :
               \A i, j \in 1..k : i < j => /\ s[i].name # s[j].name
                                           /\ SignalKeyLess(s[i], s[j])}
           : k \in 0..MaxSignals}

InputMessage(message_id, name, senders, signals) ==
    DBCMessage(message_id, name, 8, None, None, FALSE, {}, senders, signals)

(* Message 0x10 with the given signals; a rich model also has a sender on  *)
(* it and a second message 0x11.                                           *)
InputModel(signals, rich) ==
    IF rich
    THEN (16 :> InputMessage(16, "Engine", <<"N1">>, signals))
         @@ (17 :> InputMessage(17, "Brake", <<>>, <<>>))
    ELSE (16 :> InputMessage(16, "Engine", <<>>, signals))

RawModels == {InputModel(s, r) : s \in SignalLists(InputSignals({1})), r \in BOOLEAN}

CleanedModels == {InputModel(s, r) : s \in SignalLists(InputSignals({1, 2})), r \in BOOLEAN}

EmptyMap == [k \in {} |-> None]

(* The catalog after update_from_dbc of a model with one signal C. *)
CatalogSignals == ("C" :> InputSignal("C", 8, 2))

NoReport == applied = <<>> /\ skipped = <<>> /\ conflicts = <<>>

(* No object is tracked: the models and the catalog are held by value. *)
NoObjects == heap = <<>>

-----------------------------------------------------------------------------
(* Diff and replay: generate_patch on a raw and a cleaned model, then      *)
(* apply_patch of the generated document on the raw model.                 *)

InitDiff ==
    /\ raw \in RawModels
    /\ cleaned \in CleanedModels
    /\ refSignals = CatalogSignals
    /\ refMessages = EmptyMap
    /\ doc = <<>>
    /\ model = raw
    /\ db = DatabaseOf(raw)
    /\ pc = 1
    /\ phase = "init"
    /\ NoReport
    /\ NoObjects

NextDiff ==
    \/ Generate
    \/ HandleAddMessage
    \/ HandleRemoveMessage
    \/ HandleAddSignalIfMissing
    \/ HandleRemoveSignal
    \/ HandleUpdateMessageSenders
    \/ HandleUpdateSignal
    \/ HandleRenameSignal
    \/ UpdateDatabaseFromModel

SpecDiff == InitDiff /\ [][NextDiff]_vars

-----------------------------------------------------------------------------
(* Properties of the diff and of the replay of a generated document. *)

(* The twelve fields the diff covers. *)
CoveredFields ==
    {"start_bit", "length", "byte_order", "is_signed", "scale", "offset",
     "minimum", "maximum", "unit", "comment", "value_table", "receivers"}

SignalSet(message) == Range(message.signals)

NamesOf(message) == {s.name : s \in SignalSet(message)}

(* C1: generate(M, M) returns an empty rule list for every model M. *)
C1_GenerateSameIsEmpty ==
    (phase # "init" /\ raw = cleaned) => doc = <<>>

(* raw and cleaned have the same messages, senders and signal names and    *)
(* differ at most in covered fields of their signals.                      *)
SameShape ==
    /\ DOMAIN raw = DOMAIN cleaned
    /\ \A id \in DOMAIN raw :
          /\ [raw[id] EXCEPT !.signals = <<>>] = [cleaned[id] EXCEPT !.signals = <<>>]
          /\ NamesOf(raw[id]) = NamesOf(cleaned[id])

(* C2: when raw and cleaned differ only in covered signal fields, applying *)
(* generate(raw, cleaned) to raw gives every signal the covered fields of  *)
(* the cleaned signal of its name.                                         *)
C2_ReplayReproducesCleaned ==
    (phase \in {"done", "raised"} /\ SameShape) =>
        /\ phase = "done"
        /\ DOMAIN model = DOMAIN cleaned
        /\ \A id \in DOMAIN model :
              /\ NamesOf(model[id]) = NamesOf(cleaned[id])
              /\ \A s \in SignalSet(model[id]) : \E c \in SignalSet(cleaned[id]) :
                    /\ c.name = s.name
                    /\ \A f \in CoveredFields : s[f] = c[f]

(* In message id, cleaned is raw with the one signal old renamed to new. *)
RenamedIn(id, old, new) ==
    /\ old \in SignalSet(raw[id])
    /\ new \in SignalSet(cleaned[id])
    /\ old.name # new.name
    /\ new = [old EXCEPT !.name = new.name]
    /\ SignalSet(cleaned[id]) = (SignalSet(raw[id]) \ {old}) \cup {new}
    /\ new.name \notin NamesOf(raw[id])
    /\ [raw[id] EXCEPT !.signals = <<>>] = [cleaned[id] EXCEPT !.signals = <<>>]
    /\ DOMAIN raw = DOMAIN cleaned
    /\ \A other \in DOMAIN raw : other # id => raw[other] = cleaned[other]

(* C3: a single rename with unchanged bit layout yields exactly one rule,  *)
(* a rename_signal carrying the old locator and the new name.              *)
C3_RenameYieldsOneRule ==
    \A id \in DOMAIN raw \cap DOMAIN cleaned :
        \A old \in SignalSet(raw[id]) : \A new \in SignalSet(cleaned[id]) :
            (phase # "init" /\ RenamedIn(id, old, new)) =>
                /\ Len(doc) = 1
                /\ doc[1].op = Some("rename_signal")
                /\ doc[1].message_id = Some(Hex(id))
                /\ doc[1].signal_match =
                       Some([start_bit |-> old.start_bit, length |-> old.length])
                /\ doc[1].signal_name = new.name

(* C4: replaying the document of a single rename on raw reports exactly    *)
(* one applied rule and leaves the renamed signal, with all its other      *)
(* fields, in place of the old one.                                        *)
C4_RenameReplay ==
    \A id \in DOMAIN raw \cap DOMAIN cleaned :
        \A old \in SignalSet(raw[id]) : \A new \in SignalSet(cleaned[id]) :
            (phase \in {"done", "raised"} /\ RenamedIn(id, old, new)) =>
                /\ phase = "done"
                /\ Len(applied) = 1
                /\ id \in DOMAIN model
                /\ old.name \notin NamesOf(model[id])
                /\ new \in SignalSet(model[id])

-----------------------------------------------------------------------------
(* One update_signal rule on a loaded model. *)

WithUnit(signal, unit) == [signal EXCEPT !.unit = unit]

(* The values a rule offers for a field; "gain" is not an attribute of     *)
(* DBCSignal.                                                              *)
ChangeFields == {"start_bit", "unit", "gain"}

FieldValues(field) ==
    CASE field = "start_bit" -> {Some(0), Some(8)}
      [] field = "unit" -> {None, Some("km")}
      [] field = "gain" -> {None, Some(5)}

(* An entry of a changes map: a missing "from" or "to" reads as None. *)
Changes(field) ==
    {[field |-> field, from |-> f, to |-> t] :
        f \in FieldValues(field) \cup {None}, t \in FieldValues(field)}

(* The changes maps of up to MaxChanges entries, keys distinct. *)
ChangeMaps ==
    UNION {{m \in [1..k -> UNION {Changes(f) : f \in ChangeFields}] :
               \A i, j \in 1..k : i # j => m[i].field # m[j].field}
           : k \in 1..MaxChanges}

Locators ==
    {None, Some([start_bit |-> Some(0), length |-> Some(8)]),
     Some([start_bit |-> Some(8), length |-> Some(8)])}

UpdateRules ==
    {Rule(Some("update_signal"), Some("0x10"), loc, None, m, None, None, None) :
        loc \in Locators, m \in ChangeMaps}
    \cup
    {Rule(Some("update_signal"), id, Some([start_bit |-> Some(0), length |-> Some(8)]),
          None, <<[field |-> "unit", from |-> None, to |-> Some("km")]>>,
          None, None, None) :
        id \in {None, Some("zz"), Some("0x12"), Some("10")}}

UpdateModels ==
    {InputModel(s, FALSE) :
        s \in {<<InputSignal("A", 0, 1)>>,
               <<WithUnit(InputSignal("A", 0, 1), Some("km"))>>,
               <<InputSignal("A", 8, 1)>>,
               <<InputSignal("A", 0, 1), WithUnit(InputSignal("B", 0, 1), Some("km"))>>,
               <<InputSignal("A", 0, 1), InputSignal("B", 8, 1)>>}}

InitUpdate ==
    /\ raw = EmptyMap
    /\ cleaned = EmptyMap
    /\ refSignals = EmptyMap
    /\ refMessages = EmptyMap
    /\ model \in UpdateModels
    /\ db = DatabaseOf(model)
    /\ doc \in {<<r>> : r \in UpdateRules}
    /\ pc = 1
    /\ phase = "applying"
    /\ NoReport
    /\ NoObjects

NextUpdate ==
    \/ HandleUpdateSignal
    \/ UpdateDatabaseFromModel

SpecUpdate == InitUpdate /\ [][NextUpdate]_vars

-----------------------------------------------------------------------------
(* Properties of update_signal. *)

(* The loop of apply_patch is at an update_signal rule whose message and   *)
(* signal exist.                                                           *)
UpdateFinds ==
    /\ AtRule({"update_signal"})
    /\ MessageById(doc[pc]) \in DOMAIN model
    /\ doc[pc].signal_match # None
    /\ FindSignalByMatch(model[MessageById(doc[pc])], Val(doc[pc].signal_match)) # 0

(* The entry's recorded "from" is present and is not the value the signal  *)
(* holds.                                                                  *)
Mismatch(signal, change) ==
    change.from # None /\ change.from # GetAttr(signal, change.field)

LastOf(s) == s[Len(s)]

(* C5: an update_signal whose every "from" equals the current value is    *)
(* reported applied and leaves every field at its "to"; one with a present *)
(* and different "from" is reported a conflict and leaves that field as it *)
(* was.                                                                    *)
C5_UpdateAppliesOrConflicts ==
    [][UpdateFinds =>
        LET rule == doc[pc]
            id == MessageById(rule)
            i == FindSignalByMatch(model[id], Val(rule.signal_match))
            before == model[id].signals[i]
            after == model'[id].signals[i]
            changes == Range(rule.changes)
        IN  /\ (\A c \in changes : c.from = GetAttr(before, c.field)) =>
                   /\ applied' = Append(applied, Info(rule, None))
                   /\ conflicts' = conflicts /\ skipped' = skipped
                   /\ \A c \in changes : GetAttr(after, c.field) = c.to
            /\ (\E c \in changes : Mismatch(before, c)) =>
                   /\ Len(conflicts') = Len(conflicts) + 1
                   /\ LastOf(conflicts').rule = rule
                   /\ applied' = applied /\ skipped' = skipped
                   /\ \A c \in changes : Mismatch(before, c) =>
                          GetAttr(after, c.field) = GetAttr(before, c.field)
    ]_vars

(* A conflict has been reported for a rule whose only entry records a      *)
(* "from" that the signal, still unchanged, does not hold.                 *)
C5_Witness ==
    /\ phase = "applying" /\ pc = 2 /\ Len(conflicts) = 1
    /\ Len(doc[1].changes) = 1
    /\ doc[1].signal_match # None
    /\ FindSignalByMatch(model[16], Val(doc[1].signal_match)) # 0
    /\ LET c == doc[1].changes[1]
           s == model[16].signals[FindSignalByMatch(model[16], Val(doc[1].signal_match))]
       IN  /\ c.from # None
           /\ GetAttr(s, c.field) # c.from
           /\ GetAttr(s, c.field) # c.to

(* C6: the first entry of the changes map whose "from" mismatches makes    *)
(* the rule a conflict, and neither its field nor the field of any later   *)
(* entry is modified.                                                      *)
C6_FirstMismatchStops ==
    [][UpdateFinds =>
        LET rule == doc[pc]
            id == MessageById(rule)
            i == FindSignalByMatch(model[id], Val(rule.signal_match))
            before == model[id].signals[i]
            after == model'[id].signals[i]
        IN  \A k \in DOMAIN rule.changes :
                (/\ Mismatch(before, rule.changes[k])
                 /\ \A j \in 1..(k - 1) : ~Mismatch(before, rule.changes[j])) =>
                    /\ conflicts' = Append(conflicts,
                           Info(rule, Some(<<"expected", rule.changes[k].from, "but found",
                                             GetAttr(before, rule.changes[k].field)>>)))
                    /\ \A j \in k..Len(rule.changes) :
                           GetAttr(after, rule.changes[j].field) =
                               GetAttr(before, rule.changes[j].field)
    ]_vars

(* A conflict has been reported on the first of two entries, and the field *)
(* of the second entry, whose own "from" matched, has not taken its "to".  *)
C6_Witness ==
    /\ phase = "applying" /\ pc = 2 /\ Len(conflicts) = 1
    /\ Len(doc[1].changes) = 2
    /\ doc[1].signal_match # None
    /\ FindSignalByMatch(model[16], Val(doc[1].signal_match)) # 0
    /\ LET c1 == doc[1].changes[1]
           c2 == doc[1].changes[2]
           s == model[16].signals[FindSignalByMatch(model[16], Val(doc[1].signal_match))]
       IN  /\ Mismatch(s, c1)
           /\ ~Mismatch(s, c2)
           /\ GetAttr(s, c2.field) # c2.to

-----------------------------------------------------------------------------
(* Catalog import, ReferenceDB.update_from_dbc. *)

(* The assignment keeping the value a key already has: setdefault. *)
PutIfAbsent(map, key, value) ==
    [k \in (DOMAIN map) \cup {key} |-> IF k \in DOMAIN map THEN map[k] ELSE value]

(* d[key] = value *)
Put(map, key, value) ==
    [k \in (DOMAIN map) \cup {key} |-> IF k = key THEN value ELSE map[k]]

(* ReferenceDB._canonicalize_message *)
CanonicalizeMessage(message) ==
    DBCMessage(message.message_id, message.name, message.length, message.cycle_time,
               message.comment, message.is_extended_frame, message.attributes,
               message.senders, message.signals)

RECURSIVE ImportSignals(_, _)
(* for sig in msg.signals: self.signals[sig.name] = deepcopy(sig) *)
ImportSignals(signals, sigs) ==
    IF sigs = <<>> THEN signals
    ELSE ImportSignals(Put(signals, Val(Head(sigs).name), Head(sigs)), Tail(sigs))

RECURSIVE UpdateFromDbc(_, _)
(* ReferenceDB.update_from_dbc over the messages of a model, in the order  *)
(* of model.messages.values(); catalog is [signals, messages].             *)
UpdateFromDbc(catalog, msgs) ==
    IF msgs = <<>> THEN catalog
    ELSE LET msg == Head(msgs)
             canonical == CanonicalizeMessage(msg)
         IN  UpdateFromDbc(
                 [signals |-> ImportSignals(catalog.signals, msg.signals),
                  messages |-> Put(Put(catalog.messages,
                                       MessageKey(msg.message_id, msg.name), canonical),
                                   msg.name, canonical)],
                 Tail(msgs))

-----------------------------------------------------------------------------
(* A hand-written patch document applied to a loaded model. *)

EmptyCatalog == [signals |-> EmptyMap, messages |-> EmptyMap]

(* The model the catalog was imported from: message 0x11 with signal C. *)
TrustedModel ==
    (17 :> InputMessage(17, "Brake", <<"N2">>, <<InputSignal("C", 8, 2)>>))

Catalogs == {EmptyCatalog, UpdateFromDbc(EmptyCatalog, DatabaseOf(TrustedModel))}

TargetModels ==
    {InputModel(<<InputSignal("A", 0, 1)>>, FALSE),
     InputModel(<<InputSignal("A", 0, 1), InputSignal("B", 8, 1)>>, FALSE)}

Locator(start_bit, length) == Some([start_bit |-> Some(start_bit), length |-> Some(length)])

SignalRule(op, message_id, signal_match, signal_name, changes, signal) ==
    Rule(Some(op), message_id, signal_match, signal_name, changes, signal, None, None)

MessageRule(op, message_id, name) ==
    Rule(Some(op), message_id, None, None, <<>>, None, None, name)

(* Embedded signal payloads: one for C that differs from the catalog's C,  *)
(* one that gives a bit layout and no name.                                *)
PayloadC == [name |-> Some("C"), start_bit |-> Some(0), length |-> Some(8)]
PayloadNoName == [start_bit |-> Some(8), length |-> Some(8)]

(* An embedded message payload for 0x11 that differs from the catalog's    *)
(* entry for that id.                                                      *)
PayloadMessage == InputMessage(17, "Brk", <<>>, <<InputSignal("A", 0, 1)>>)

(* An embedded message payload for 0x10: one signal C at bit 0, scale 2. *)
PayloadEngine == InputMessage(16, "Engine", <<>>, <<InputSignal("C", 0, 2)>>)

ApplyRules ==
    {SignalRule("update_signal", Some("0x10"), Locator(0, 8), None,
                <<[field |-> "scale", from |-> Some(1), to |-> Some(2)]>>, None),
     SignalRule("update_signal", Some("0x10"), Locator(0, 8), None,
                <<[field |-> "unit", from |-> None, to |-> Some("km")],
                  [field |-> "scale", from |-> Some(3), to |-> Some(1)]>>, None),
     SignalRule("update_signal", None, Locator(0, 8), None,
                <<[field |-> "scale", from |-> Some(1), to |-> Some(2)]>>, None),
     SignalRule("add_signal_if_missing", Some("0x10"), None, Some("C"), <<>>, None),
     SignalRule("add_signal_if_missing", Some("0x10"), None, Some("C"), <<>>, Some(PayloadC)),
     SignalRule("add_signal_if_missing", Some("0x10"), None, Some("B"), <<>>, Some(PayloadNoName)),
     SignalRule("add_signal_if_missing", Some("0x11"), None, Some("C"), <<>>, None),
     SignalRule("remove_signal", Some("0x10"), None, Some("A"), <<>>, None),
     SignalRule("rename_signal", Some("0x10"), Locator(0, 8), Some("C"), <<>>, None),
     SignalRule("update_message_senders", Some("0x10"), None, None,
                <<[field |-> "senders", from |-> Some(<<>>), to |-> Some(<<"N1">>)]>>, None),
     MessageRule("add_message", Some("0x11"), Some("Brake")),
     MessageRule("add_message", Some("0x12"), Some("Brake")),
     Rule(Some("add_message"), Some("0x11"), None, None, <<>>, None,
          Some(PayloadMessage), None),
     MessageRule("add_message", Some("zz"), None),
     MessageRule("remove_message", Some("0x10"), None),
     MessageRule("update_message", Some("0x10"), None),
     Rule(Some("update_message"), Some("0x10"), None, None, <<>>, None,
          Some(PayloadEngine), None),
     Rule(Some("update_message"), Some("0x11"), None, None, <<>>, None,
          Some(PayloadMessage), None),
     MessageRule("frobnicate", Some("0x10"), None),
     Rule(None, Some("0x10"), None, None, <<>>, None, None, None)}

Documents ==
    UNION {[1..k -> ApplyRules] : k \in 1..MaxRules}

InitApply ==
    /\ raw = EmptyMap
    /\ cleaned = EmptyMap
    /\ \E catalog \in Catalogs :
          /\ refSignals = catalog.signals
          /\ refMessages = catalog.messages
    /\ model \in TargetModels
    /\ db = DatabaseOf(model)
    /\ doc \in Documents
    /\ pc = 1
    /\ phase = "applying"
    /\ NoReport
    /\ NoObjects

NextApply ==
    \/ HandleUpdateSignal
    \/ HandleAddSignalIfMissing
    \/ HandleRemoveSignal
    \/ HandleRenameSignal
    \/ HandleUpdateMessageSenders
    \/ HandleAddMessage
    \/ HandleRemoveMessage
    \/ HandleUpdateMessage
    \/ Unsupported
    \/ UpdateDatabaseFromModel

SpecApply == InitApply /\ [][NextApply]_vars

-----------------------------------------------------------------------------
(* Properties of apply_patch on a hand-written document. *)

(* C7: a signal created by add_signal_if_missing is the rule's payload if  *)
(* it has one, else the catalog entry of that name if there is one, else   *)
(* the inert default.                                                      *)
C7_AddSignalSourcePriority ==
    [][(AtRule({"add_signal_if_missing"}) /\ Len(applied') = Len(applied) + 1) =>
        LET rule == doc[pc]
            id == MessageById(rule)
            created == LastOf(model'[id].signals)
            entry == SuggestForSignal(refSignals, Str(rule.signal_name))
        IN  IF rule.signal # None THEN created = SignalFromDict(Val(rule.signal))
            ELSE IF entry # None THEN created = Val(entry)
            ELSE /\ created.name = rule.signal_name
                 /\ created.start_bit = Some(0) /\ created.length = Some(8)
                 /\ created.is_signed = Some(FALSE) /\ created.byte_order = Some("intel")
                 /\ created.scale = Some(1) /\ created.offset = Some(0)
                 /\ created.value_table = Some({})
    ]_vars

(* C8: a remove_signal or add_signal_if_missing rule that was applied is   *)
(* skipped, and changes nothing, when applied a second time right after.   *)
C8_SecondApplicationSkipped ==
    [][(/\ phase = "applying" /\ pc = 2 /\ Len(doc) >= 2
        /\ doc[2] = doc[1]
        /\ doc[1].op \in {Some("remove_signal"), Some("add_signal_if_missing")}
        /\ Len(applied) = 1) =>
            /\ Len(skipped') = Len(skipped) + 1
            /\ LastOf(skipped').rule = doc[2]
            /\ applied' = applied
            /\ conflicts' = conflicts
            /\ model' = model
    ]_vars

(* C9: a rule whose op tag has no handler is reported skipped with reason  *)
(* "unsupported", changes nothing, and the loop goes on to the next rule.  *)
C9_UnsupportedSkipped ==
    [][(phase = "applying" /\ pc <= Len(doc) /\ ~HasHandler(doc[pc].op)) =>
            /\ skipped' = Append(skipped, Info(doc[pc], Some("unsupported")))
            /\ applied' = applied
            /\ conflicts' = conflicts
            /\ model' = model
            /\ db' = db
            /\ pc' = pc + 1
            /\ phase' = "applying"
    ]_vars

(* An unsupported first rule has been skipped as such and the rule after   *)
(* it has been applied.                                                    *)
C9_Witness ==
    /\ phase = "applying" /\ pc = 3
    /\ ~HasHandler(doc[1].op)
    /\ skipped = <<Info(doc[1], Some("unsupported"))>>
    /\ applied = <<Info(doc[2], None)>>

(* C10: no rule makes apply_patch raise: the loop never ends in an         *)
(* exception at a rule.                                                    *)
C10_NoRuleRaises ==
    ~(phase = "raised" /\ pc <= Len(doc))


-----------------------------------------------------------------------------
(* Properties of a batch: order of application and absence of rollback. *)

(* The step files the rule the loop is at under skipped or conflicts. *)
ReportsSkipOrConflict ==
    /\ phase = "applying" /\ pc <= Len(doc)
    /\ \/ Len(skipped') = Len(skipped) + 1
       \/ Len(conflicts') = Len(conflicts) + 1

(* The step wrote to the signal value a field that the rule the loop is at *)
(* names in its changes map, and wrote that entry's "to".                  *)
OwnWrite(field, value) ==
    /\ doc[pc].op = Some("update_signal")
    /\ \E k \in DOMAIN doc[pc].changes :
          doc[pc].changes[k].field = field /\ doc[pc].changes[k].to = value

(* Every message and signal is still there after the step, and each of its *)
(* values is the one it had before or one the rule itself wrote.           *)
NothingUndone ==
    /\ DOMAIN model' = DOMAIN model
    /\ \A id \in DOMAIN model :
          /\ [model'[id] EXCEPT !.signals = <<>>] = [model[id] EXCEPT !.signals = <<>>]
          /\ Len(model'[id].signals) = Len(model[id].signals)
          /\ \A i \in DOMAIN model[id].signals :
                \A f \in DOMAIN model'[id].signals[i] :
                    \/ /\ f \in DOMAIN model[id].signals[i]
                       /\ model'[id].signals[i][f] = model[id].signals[i][f]
                    \/ OwnWrite(f, model'[id].signals[i][f])

(* The step that ends the batch, the rebuild of the model from its text. *)
BatchEnds == phase = "applying" /\ pc = Len(doc) + 1 /\ phase' = "done"

(* The rebuilt model has every message, with its name and senders, and     *)
(* every signal with its name, layout and conversion.                      *)
KeptAtEnd ==
    /\ DOMAIN model' = DOMAIN model
    /\ \A id \in DOMAIN model :
          /\ model'[id].name = model[id].name
          /\ model'[id].senders = model[id].senders
          /\ Len(model'[id].signals) = Len(model[id].signals)
          /\ \A s \in SignalSet(model[id]) : \E t \in SignalSet(model'[id]) :
                \A f \in {"name", "start_bit", "length", "byte_order", "is_signed",
                          "scale", "offset", "unit"} : t[f] = s[f]

SignalOps ==
    {"update_signal", "add_signal_if_missing", "remove_signal", "rename_signal"}

(* The step reports the rule the loop is at as applied. *)
ReportsApplied == applied' = Append(applied, Info(doc[pc], None))

AddMessageSource(rule) ==
    LET id == MessageById(rule)
        name == NameOrEmpty(rule)
    IN  IF rule.message # None THEN rule.message
        ELSE IF Lookup(refMessages, MessageKey(id, name)) # None
        THEN Lookup(refMessages, MessageKey(id, name))
        ELSE Lookup(refMessages, name)

(* C13: add_message on an id of the model is skipped and changes nothing;  *)
(* on an absent id it is applied and the model then has a message at that  *)
(* id, which has the name, length and signals of the rule's source or, if  *)
(* there is none, is the default of length 8 without signals.              *)
C13_AddMessageCreates ==
    [][(AtRule({"add_message"}) /\ MessageById(doc[pc]) >= 0) =>
        LET rule == doc[pc]
            id == MessageById(rule)
            source == AddMessageSource(rule)
        IN  /\ id \in DOMAIN model =>
                   /\ skipped' = Append(skipped, Info(rule, Some("message exists")))
                   /\ applied' = applied /\ conflicts' = conflicts
                   /\ model' = model
            /\ id \notin DOMAIN model =>
                   /\ ReportsApplied
                   /\ id \in DOMAIN model'
                   /\ model'[id].message_id = id
                   /\ IF source # None
                      THEN /\ model'[id].name = Val(source).name
                           /\ model'[id].length = Val(source).length
                           /\ SignalSet(model'[id]) = SignalSet(Val(source))
                      ELSE /\ model'[id].length = 8
                           /\ model'[id].signals = <<>>
    ]_vars


-----------------------------------------------------------------------------
(* Diff and replay of models that differ in their sets of messages. *)

(* The frame ids of the models. *)
MessageIds == 16..MaxFrameId

(* The messages a model can hold under an id: one signal A at bit 0, with  *)
(* scale 1 or 2.                                                           *)
MessagesAt(id) ==
    {InputMessage(id, "M" \o HexBody(id), <<>>, <<InputSignal("A", 0, sc)>>) : sc \in {1, 2}}

(* The models over every subset of the ids. *)
IdModels ==
    UNION {{m \in [ids -> UNION {MessagesAt(id) : id \in ids}] :
               \A id \in ids : m[id] \in MessagesAt(id)}
           : ids \in SUBSET MessageIds}

InitIds ==
    /\ raw \in IdModels
    /\ cleaned \in IdModels
    /\ refSignals = EmptyMap
    /\ refMessages = EmptyMap
    /\ doc = <<>>
    /\ model = raw
    /\ db = DatabaseOf(raw)
    /\ pc = 1
    /\ phase = "init"
    /\ NoReport
    /\ NoObjects

NextIds ==
    \/ Generate
    \/ HandleAddMessage
    \/ HandleRemoveMessage
    \/ HandleUpdateSignal
    \/ UpdateDatabaseFromModel

SpecIds == InitIds /\ [][NextIds]_vars

(* The frame id a generated rule carries. *)
IdOf(rule) == ParseHex(Val(rule.message_id))

(* C14: the generated document starts with one add_message for each id     *)
(* that only cleaned has, in ascending id order, goes on with one          *)
(* remove_message for each id that only raw has, in ascending id order,    *)
(* and ends with the rules of the messages both have, message by message   *)
(* in ascending id order.                                                  *)
C14_MessageRulesOrder ==
    phase # "init" =>
        LET adds == DOMAIN cleaned \ DOMAIN raw
            removes == DOMAIN raw \ DOMAIN cleaned
            both == DOMAIN raw \cap DOMAIN cleaned
            na == Cardinality(adds)
            nr == Cardinality(removes)
        IN  /\ Len(doc) >= na + nr
            /\ \A i \in 1..na : doc[i].op = Some("add_message")
            /\ {IdOf(doc[i]) : i \in 1..na} = adds
            /\ \A i \in (na + 1)..(na + nr) : doc[i].op = Some("remove_message")
            /\ {IdOf(doc[i]) : i \in (na + 1)..(na + nr)} = removes
            /\ \A i, j \in 1..na : i < j => IdOf(doc[i]) < IdOf(doc[j])
            /\ \A i, j \in (na + 1)..(na + nr) : i < j => IdOf(doc[i]) < IdOf(doc[j])
            /\ \A i \in (na + nr + 1)..Len(doc) :
                  /\ doc[i].op \notin {Some("add_message"), Some("remove_message")}
                  /\ IdOf(doc[i]) \in both
            /\ \A i, j \in (na + nr + 1)..Len(doc) : i < j => IdOf(doc[i]) <= IdOf(doc[j])

(* A generated document for two ids that only cleaned has and one that     *)
(* only raw has.                                                           *)
C14_Witness ==
    /\ phase = "applying" /\ pc = 1
    /\ Cardinality(DOMAIN cleaned \ DOMAIN raw) = 2
    /\ Cardinality(DOMAIN raw \ DOMAIN cleaned) = 1
    /\ Len(doc) = 3


-----------------------------------------------------------------------------
(* Further properties of the diff, on the models of SpecDiff. *)

(* A raw and a cleaned signal of message id that no signal of the other    *)
(* side pairs by name and that have the same start_bit, length and         *)
(* byte_order.                                                             *)
RenamePairs(id) ==
    {p \in SignalSet(raw[id]) \X SignalSet(cleaned[id]) :
        /\ p[1].name \notin NamesOf(cleaned[id])
        /\ p[2].name \notin NamesOf(raw[id])
        /\ p[1].start_bit = p[2].start_bit
        /\ p[1].length = p[2].length
        /\ p[1].byte_order = p[2].byte_order}

(* The positions in the document of the rename_signal rules of message id. *)
RenameRules(id) ==
    {i \in DOMAIN doc : doc[i].op = Some("rename_signal") /\ doc[i].message_id = Some(Hex(id))}

(* C15: every generated rename_signal rule is for a raw and a cleaned      *)
(* signal that are not paired by name and share start_bit, length and      *)
(* byte_order, and there is one rule for every such pair.                  *)
C15_RenamesOnlyUnpaired ==
    phase # "init" =>
        \A id \in DOMAIN raw \cap DOMAIN cleaned :
            /\ \A i \in RenameRules(id) : \E p \in RenamePairs(id) :
                  /\ doc[i].signal_match =
                         Some([start_bit |-> p[1].start_bit, length |-> p[1].length])
                  /\ doc[i].signal_name = p[2].name
            /\ Cardinality(RenameRules(id)) = Cardinality(RenamePairs(id))


(* C16: the generated rule list is a function of raw and cleaned: every    *)
(* run of generate_patch on the same two models returns the rules of this  *)
(* run, in the same order.                                                 *)
C16_GenerateDeterministic ==
    phase # "init" => \A other \in GeneratePatch(raw, cleaned) : other = doc


(* The signal of that name in a message whose signal names are unique. *)
SignalOf(message, name) == CHOOSE s \in SignalSet(message) : s.name = name

(* The names that raw and cleaned both have in message id and whose two    *)
(* signals differ in a covered field.                                      *)
DifferingNames(id) ==
    {n \in NamesOf(raw[id]) \cap NamesOf(cleaned[id]) :
        \E f \in CoveredFields : SignalOf(raw[id], n)[f] # SignalOf(cleaned[id], n)[f]}

(* The positions in the document of the update_signal rules of message id. *)
UpdateSignalRules(id) ==
    {i \in DOMAIN doc : doc[i].op = Some("update_signal") /\ doc[i].message_id = Some(Hex(id))}

(* The rule is the update of the signal of that name: the locator of the   *)
(* raw signal and one entry, raw value to cleaned value, for exactly the   *)
(* covered fields in which the two signals differ.                         *)
IsUpdateOf(rule, id, n) ==
    LET r == SignalOf(raw[id], n)
        c == SignalOf(cleaned[id], n)
    IN  /\ rule.signal_match = Some([start_bit |-> r.start_bit, length |-> r.length])
        /\ Range(rule.changes) =
               {[field |-> f, from |-> r[f], to |-> c[f]] : f \in {g \in CoveredFields : r[g] # c[g]}}
        /\ \A i, j \in DOMAIN rule.changes :
               rule.changes[i].field = rule.changes[j].field => i = j

(* C17: for the signal names that raw and cleaned share in a message, the  *)
(* document holds no update_signal rule for a name whose signals agree on  *)
(* the twelve covered fields and exactly one for every other name, with    *)
(* the raw locator and the entries of exactly the differing fields.        *)
C17_OneUpdatePerSignal ==
    phase # "init" =>
        \A id \in DOMAIN raw \cap DOMAIN cleaned :
            /\ Cardinality(UpdateSignalRules(id)) = Cardinality(DifferingNames(id))
            /\ \A n \in DifferingNames(id) :
                  \E i \in UpdateSignalRules(id) : IsUpdateOf(doc[i], id, n)
            /\ \A i \in UpdateSignalRules(id) :
                  \E n \in DifferingNames(id) : IsUpdateOf(doc[i], id, n)

(* A generated document with the update of a signal that differs in two    *)
(* fields, next to a signal of both models that differs in none.           *)
C17_Witness ==
    /\ phase = "applying" /\ pc = 1
    /\ Cardinality(NamesOf(raw[16]) \cap NamesOf(cleaned[16])) = 2
    /\ Cardinality(DifferingNames(16)) = 1
    /\ \E i \in UpdateSignalRules(16) : Len(doc[i].changes) = 2


-----------------------------------------------------------------------------
(* One update_message_senders rule on a loaded model. *)

(* The sender lists of up to MaxSenders nodes. *)
SenderLists == UNION {[1..k -> {"N1", "N2"}] : k \in 0..MaxSenders}

(* A rule with the one entry "senders" in its changes map; a missing       *)
(* "from" or "to" reads as None.                                           *)
SendersRules ==
    {Rule(Some("update_message_senders"), Some(id), None, None,
          <<[field |-> "senders", from |-> f, to |-> t]>>, None, None, None) :
        id \in {"0x10", "0x11"},
        f \in {None} \cup {Some(l) : l \in SenderLists},
        t \in {None} \cup {Some(l) : l \in SenderLists}}

(* Message 0x10 with signal A and each of the sender lists. *)
SendersModels ==
    {(16 :> InputMessage(16, "Engine", l, <<InputSignal("A", 0, 1)>>)) : l \in SenderLists}

InitSenders ==
    /\ raw = EmptyMap
    /\ cleaned = EmptyMap
    /\ refSignals = EmptyMap
    /\ refMessages = EmptyMap
    /\ model \in SendersModels
    /\ db = DatabaseOf(model)
    /\ doc \in {<<r>> : r \in SendersRules}
    /\ pc = 1
    /\ phase = "applying"
    /\ NoReport
    /\ NoObjects

NextSenders ==
    \/ HandleUpdateMessageSenders
    \/ UpdateDatabaseFromModel

SpecSenders == InitSenders /\ [][NextSenders]_vars

-----------------------------------------------------------------------------
(* Frame and skip properties of the handlers, on the documents of          *)
(* SpecApply.                                                              *)

(* The positions in the message of the signals at the rule's locator. *)
AtLocator(message, rule) ==
    {k \in DOMAIN message.signals :
        /\ rule.signal_match # None
        /\ message.signals[k].start_bit = Val(rule.signal_match).start_bit
        /\ message.signals[k].length = Val(rule.signal_match).length}

(* C19: rename_signal on a message of the model.  When it is applied, the  *)
(* model differs from the one before in the name of one signal at the      *)
(* rule's locator and in nothing else; when no signal is at the locator    *)
(* the rule is skipped and the model is the one before.                    *)
C19_RenameFrame ==
    [][(AtRule({"rename_signal"}) /\ MessageById(doc[pc]) \in DOMAIN model) =>
        LET rule == doc[pc]
            id == MessageById(rule)
            hits == AtLocator(model[id], rule)
        IN  /\ db' = db
            /\ hits = {} =>
                   /\ skipped' = Append(skipped, Info(rule, Some("signal missing")))
                   /\ applied' = applied /\ conflicts' = conflicts
                   /\ model' = model
            /\ (hits # {} /\ ~Falsy(rule.signal_name)) =>
                   /\ ReportsApplied
                   /\ \E k \in hits :
                         model' = [model EXCEPT ![id].signals[k].name = rule.signal_name]
            /\ applied' # applied => hits # {}
    ]_vars

(* The first rule renamed the signal at bit 0 of a message of two signals  *)
(* to C: that signal has its scale and layout, the other signal is B as    *)
(* loaded.                                                                 *)
C19_Witness ==
    /\ phase = "applying" /\ pc = 2
    /\ doc[1].op = Some("rename_signal")
    /\ applied = <<Info(doc[1], None)>>
    /\ model[16].signals =
           <<[InputSignal("A", 0, 1) EXCEPT !.name = Some("C")], InputSignal("B", 8, 1)>>


(* The rules whose handler addresses a message the model already has. *)
ExistingMessageOps ==
    {"update_signal", "add_signal_if_missing", "remove_signal", "rename_signal",
     "update_message_senders", "remove_message", "update_message"}

(* The step reports the rule the loop is at as skipped and reports nothing *)
(* else, and the model is the one before.                                  *)
SkippedUntouched ==
    /\ Len(skipped') = Len(skipped) + 1
    /\ LastOf(skipped').rule = doc[pc]
    /\ applied' = applied /\ conflicts' = conflicts
    /\ model' = model /\ db' = db

(* C20: a rule of a handler that addresses an existing message is skipped, *)
(* the model untouched, when the model has no message of the rule's id;    *)
(* update_message is skipped as well when the rule has no payload; and     *)
(* remove_message on an id of the model is applied and takes exactly that  *)
(* id out of the model.                                                    *)
C20_MissingMessageSkipped ==
    [][(AtRule(ExistingMessageOps) /\ MessageById(doc[pc]) >= 0) =>
        LET rule == doc[pc]
            id == MessageById(rule)
        IN  /\ id \notin DOMAIN model => SkippedUntouched
            /\ (rule.op = Some("update_message") /\ rule.message = None) => SkippedUntouched
            /\ (rule.op = Some("remove_message") /\ id \in DOMAIN model) =>
                   /\ ReportsApplied
                   /\ skipped' = skipped /\ conflicts' = conflicts
                   /\ DOMAIN model' = DOMAIN model \ {id}
                   /\ \A other \in DOMAIN model' : model'[other] = model[other]
    ]_vars

(* remove_message took 0x10 out of the model and was applied, and the      *)
(* update_message for 0x10 after it, payload and all, was skipped.         *)
C20_Witness ==
    /\ phase = "applying" /\ pc = 3
    /\ doc[1].op = Some("remove_message")
    /\ applied = <<Info(doc[1], None)>>
    /\ 16 \notin DOMAIN model
    /\ doc[2].op = Some("update_message") /\ doc[2].message # None
    /\ skipped = <<Info(doc[2], Some("message missing"))>>


-----------------------------------------------------------------------------
(* The catalog and the model it is imported from, as objects.  A           *)
(* DBCSignal, a DBCMessage and a list of signals are mutable objects: heap *)
(* is the sequence of the objects created so far and a reference is the    *)
(* index of an object in it.  A message object holds the reference of its  *)
(* list of signals, a list object the references of its signals; model,    *)
(* refSignals and refMessages map their keys to references.                *)

(* What a call that creates objects returns: the heap after it and the     *)
(* reference, or list of references, of what it created.                   *)
Created(h, ref) == [heap |-> h, ref |-> ref]

(* A constructor call. *)
New(h, object) == Created(Append(h, object), Len(h) + 1)

(* copy.deepcopy of a signal: a new object with the attribute values of    *)
(* the old one.                                                            *)
Deepcopy(h, ref) == New(h, h[ref])

RECURSIVE NewSignals(_, _)
(* The signal objects DBCParser._normalize_signals creates for a message. *)
NewSignals(h, sigs) ==
    IF sigs = <<>> THEN Created(h, <<>>)
    ELSE LET first == New(h, Head(sigs))
             rest == NewSignals(first.heap, Tail(sigs))
         IN  Created(rest.heap, <<first.ref>> \o rest.ref)

RECURSIVE BuildModelObjects(_, _, _)
(* DBCParser._build_model_from_db creating the objects of a model: for     *)
(* each message of the database, in ascending frame id, its signals, the   *)
(* list of them and the message.  The result is model.messages.            *)
BuildModelObjects(h, messages, database) ==
    IF database = <<>> THEN [heap |-> h, messages |-> messages]
    ELSE LET msg == Head(database)
             signals == NewSignals(h, msg.signals)
             list == New(signals.heap, signals.ref)
             message == New(list.heap, [msg EXCEPT !.signals = list.ref])
         IN  BuildModelObjects(message.heap, Put(messages, msg.message_id, message.ref),
                               Tail(database))

(* message.signals: the references of the signals of a message object. *)
SignalRefs(h, message) == h[h[message].signals]

(* A message object by value: its attributes and the values of its signals. *)
MessageValue(h, message) ==
    [h[message] EXCEPT !.signals =
        [i \in DOMAIN SignalRefs(h, message) |-> h[SignalRefs(h, message)[i]]]]

RECURSIVE CloneSignals(_, _)
(* [deepcopy(sig) for sig in message.signals] *)
CloneSignals(h, refs) ==
    IF refs = <<>> THEN Created(h, <<>>)
    ELSE LET first == Deepcopy(h, Head(refs))
             rest == CloneSignals(first.heap, Tail(refs))
         IN  Created(rest.heap, <<first.ref>> \o rest.ref)

(* ReferenceDB._canonicalize_message: a new message object with a new list *)
(* of copies of the signals.  senders and attributes are copied as well;   *)
(* they are held by value here, no code changing one in place.             *)
CanonicalizeMessageObject(h, message) ==
    LET cloned == CloneSignals(h, SignalRefs(h, message))
        list == New(cloned.heap, cloned.ref)
    IN  New(list.heap, [h[message] EXCEPT !.signals = list.ref])

RECURSIVE ImportSignalObjectsShared(_, _, _)
(* The loop storing the signal objects of the model themselves. *)
ImportSignalObjectsShared(h, signals, refs) ==
    IF refs = <<>> THEN [heap |-> h, signals |-> signals]
    ELSE ImportSignalObjectsShared(h, Put(signals, Val(h[Head(refs)].name), Head(refs)),
                                   Tail(refs))

RECURSIVE ImportSignalObjects(_, _, _)
(* for sig in msg.signals: self.signals[sig.name] = deepcopy(sig) *)
ImportSignalObjects(h, signals, refs) ==
    IF refs = <<>> THEN [heap |-> h, signals |-> signals]
    ELSE LET copy == Deepcopy(h, Head(refs))
         IN  ImportSignalObjects(copy.heap,
                                 Put(signals, Val(h[Head(refs)].name), copy.ref),
                                 Tail(refs))

RECURSIVE UpdateFromDbcObjects(_, _, _)
(* ReferenceDB.update_from_dbc on objects; msgs is model.messages.values() *)
(* and catalog is [signals, messages].                                     *)
UpdateFromDbcObjects(h, catalog, msgs) ==
    IF msgs = <<>>
    THEN [heap |-> h, signals |-> catalog.signals, messages |-> catalog.messages]
    ELSE LET msg == h[Head(msgs)]
             key == MessageKey(msg.message_id, msg.name)
             canonical == CanonicalizeMessageObject(h, Head(msgs))
             imported == ImportSignalObjects(canonical.heap, catalog.signals,
                                             SignalRefs(h, Head(msgs)))
         IN  UpdateFromDbcObjects(
                 imported.heap,
                 [signals |-> imported.signals,
                  messages |-> Put(Put(catalog.messages, key, canonical.ref),
                                   msg.name, canonical.ref)],
                 Tail(msgs))

(* model.messages.values() of a loaded model: ascending frame id. *)
MessageRefs(messages) ==
    LET ids == SeqOfSet(DOMAIN messages) IN [i \in DOMAIN ids |-> messages[ids[i]]]

(* PatchApplier._find_signal_by_match on objects: the reference of the     *)
(* first signal at the locator, 0 for None.                                *)
FindSignalObject(h, message, match) ==
    LET refs == SignalRefs(h, message)
        hits == {i \in DOMAIN refs :
                    /\ h[refs[i]].start_bit = Get(match, "start_bit")
                    /\ h[refs[i]].length = Get(match, "length")}
    IN  IF hits = {} THEN 0 ELSE refs[CHOOSE i \in hits : \A j \in hits : i <= j]

(* The models a catalog session loads.  Two messages of one model have a   *)
(* signal C each, and two models have a message Brake under different ids. *)
TrustedModels ==
    {TrustedModel,
     (17 :> InputMessage(17, "Brake", <<>>, <<InputSignal("C", 0, 1)>>))
        @@ (18 :> InputMessage(18, "Gear", <<"N1">>, <<InputSignal("C", 8, 3)>>)),
     (18 :> InputMessage(18, "Brake", <<>>, <<InputSignal("C", 0, 1)>>))}

(* The names of the messages of the loaded models. *)
MessageNames == {"Brake", "Gear"}

(* The session of the catalog: models are loaded, imported and edited. *)
CatalogSession == phase = "catalog"

(* DBCParser.load_dbc: the session loads one of the models. *)
LoadDbc ==
    /\ CatalogSession
    /\ \E messages \in TrustedModels :
          LET built == BuildModelObjects(heap, EmptyMap, DatabaseOf(messages))
          IN  /\ Len(built.heap) <= MaxObjects
              /\ heap' = built.heap
              /\ model' = built.messages
              /\ db' = DatabaseOf(messages)
    /\ UNCHANGED <<raw, cleaned, doc, refSignals, refMessages, pc, phase,
                   applied, skipped, conflicts>>

(* ReferenceDB.update_from_dbc(model) *)
ImportFrom ==
    /\ CatalogSession
    /\ DOMAIN model # {}
    /\ LET updated == UpdateFromDbcObjects(heap, [signals |-> refSignals,
                                                  messages |-> refMessages],
                                           MessageRefs(model))
       IN  /\ Len(updated.heap) <= MaxObjects
           /\ heap' = updated.heap
           /\ refSignals' = updated.signals
           /\ refMessages' = updated.messages
    /\ UNCHANGED <<raw, cleaned, doc, model, db, pc, phase, applied, skipped, conflicts>>

(* Line 120 of _handle_update_signal on objects: setattr on the signal the *)
(* locator finds, for a rule that gives the scale a new value.             *)
HandleUpdateSignalOnObjects ==
    /\ CatalogSession
    /\ \E id \in DOMAIN model, match \in {Val(l) : l \in Locators \ {None}},
          new_val \in {Some(5)} :
          LET signal == FindSignalObject(heap, model[id], match)
          IN  /\ signal # 0
              /\ heap' = [heap EXCEPT ![signal] = SetAttr(@, "scale", new_val)]
    /\ UNCHANGED <<raw, cleaned, doc, model, db, refSignals, refMessages, pc, phase,
                   applied, skipped, conflicts>>

(* Line 181 of _handle_rename_signal on objects: signal.name = new_name on *)
(* the signal the locator finds.                                           *)
HandleRenameSignalOnObjects ==
    /\ CatalogSession
    /\ \E id \in DOMAIN model, match \in {Val(l) : l \in Locators \ {None}},
          new_name \in {"B"} :
          LET signal == FindSignalObject(heap, model[id], match)
          IN  /\ signal # 0
              /\ heap' = [heap EXCEPT ![signal].name = Some(new_name)]
    /\ UNCHANGED <<raw, cleaned, doc, model, db, refSignals, refMessages, pc, phase,
                   applied, skipped, conflicts>>

(* Lines 133-138 and 156 of _handle_add_signal on objects: a copy of the   *)
(* catalog's template is appended to the list of the message.              *)
HandleAddSignalOnObjects ==
    /\ CatalogSession
    /\ \E id \in DOMAIN model, sig_name \in SignalNames :
          LET refs == SignalRefs(heap, model[id])
              template == SuggestForSignal(refSignals, sig_name)
              new_signal == Deepcopy(heap, Val(template))
          IN  /\ \A i \in DOMAIN refs : heap[refs[i]].name # Some(sig_name)
              /\ template # None
              /\ Len(new_signal.heap) <= MaxObjects
              /\ heap' = [new_signal.heap EXCEPT ![heap[model[id]].signals] =
                                                     Append(@, new_signal.ref)]
    /\ UNCHANGED <<raw, cleaned, doc, model, db, refSignals, refMessages, pc, phase,
                   applied, skipped, conflicts>>

(* Lines 214-221 of _handle_add_message on objects: the catalog's entry is *)
(* turned into a dict and a cantools message, inserted into model.db, and  *)
(* the model is built anew from that database.                             *)
HandleAddMessageOnObjects ==
    /\ CatalogSession
    /\ \E msg_id \in (16..MaxFrameId) \ DOMAIN model, name \in MessageNames :
          LET suggestion == SuggestMessage(refMessages, msg_id, name)
              message_obj == CantoolsMessageFromDict(
                                 MessageToDict(MessageValue(heap, Val(suggestion))))
              new_db == InsertMessageIntoDatabase(db, message_obj)
              built == BuildModelObjects(heap, EmptyMap,
                                         DatabaseOf(BuildModelFromDb(new_db)))
          IN  /\ suggestion # None
              /\ Len(built.heap) <= MaxObjects
              /\ heap' = built.heap
              /\ model' = built.messages
              /\ db' = new_db
    /\ UNCHANGED <<raw, cleaned, doc, refSignals, refMessages, pc, phase,
                   applied, skipped, conflicts>>

InitCatalog ==
    /\ raw = EmptyMap
    /\ cleaned = EmptyMap
    /\ refSignals = EmptyMap
    /\ refMessages = EmptyMap
    /\ model = EmptyMap
    /\ db = <<>>
    /\ doc = <<>>
    /\ pc = 1
    /\ phase = "catalog"
    /\ NoReport
    /\ NoObjects

NextCatalog ==
    \/ LoadDbc
    \/ ImportFrom
    \/ HandleUpdateSignalOnObjects
    \/ HandleRenameSignalOnObjects
    \/ HandleAddSignalOnObjects
    \/ HandleAddMessageOnObjects

SpecCatalog == InitCatalog /\ [][NextCatalog]_vars


-----------------------------------------------------------------------------
(* Properties of the catalog. *)

(* The step wrote the catalog's maps: it is an update_from_dbc. *)
Imported == refSignals' # refSignals \/ refMessages' # refMessages

(* The value of an entry of a catalog map, None when the key has none. *)
SignalEntry(h, signals, name) ==
    IF name \in DOMAIN signals THEN Some(h[signals[name]]) ELSE None

MessageEntry(h, messages, key) ==
    IF key \in DOMAIN messages THEN Some(MessageValue(h, messages[key])) ELSE None

(* The largest element of a non-empty set of positions. *)
Latest(S) == CHOOSE i \in S : \A j \in S : j <= i

(* The signal named n of the imported model: the one of the last message,  *)
(* in iteration order, that has a signal of that name; None without one.   *)
ImportedSignal(n) ==
    LET msgs == MessageRefs(model)
        Named(i) == {k \in DOMAIN SignalRefs(heap, msgs[i]) :
                        heap[SignalRefs(heap, msgs[i])[k]].name = Some(n)}
        holders == {i \in DOMAIN msgs : Named(i) # {}}
    IN  IF holders = {} THEN None
        ELSE Some(heap[SignalRefs(heap, msgs[Latest(holders)])[Latest(Named(Latest(holders)))]])

(* The last message of the imported model, in iteration order, among those *)
(* at the given positions; None without one.                               *)
ImportedMessage(positions) ==
    IF positions = {} THEN None
    ELSE Some(MessageValue(heap, MessageRefs(model)[Latest(positions)]))

(* C21: catalog import is last-write-wins.  After an import, the entry of  *)
(* a signal name is the signal of that name of the imported model (of its  *)
(* last message that has one) and, for a name the model does not have, the *)
(* entry it was before; the entry under id:name and the entry under a bare *)
(* name are likewise the imported model's message or the entry as before;  *)
(* and suggest_message returns the entry under id:name when there is one   *)
(* and otherwise the entry under the bare name.                            *)
C21_LastWriteWins ==
    [][Imported =>
        LET msgs == MessageRefs(model)
            WithName(name) == {i \in DOMAIN msgs : heap[msgs[i]].name = name}
            WithKey(id, name) == {i \in WithName(name) : heap[msgs[i]].message_id = id}
        IN  /\ DOMAIN refSignals' \subseteq SignalNames
            /\ \A n \in SignalNames :
                  SignalEntry(heap', refSignals', n) =
                      IF ImportedSignal(n) # None THEN ImportedSignal(n)
                      ELSE SignalEntry(heap, refSignals, n)
            /\ \A name \in MessageNames :
                  /\ MessageEntry(heap', refMessages', name) =
                         IF WithName(name) # {} THEN ImportedMessage(WithName(name))
                         ELSE MessageEntry(heap, refMessages, name)
                  /\ \A id \in 0..MaxFrameId :
                        /\ MessageEntry(heap', refMessages', MessageKey(id, name)) =
                               IF WithKey(id, name) # {} THEN ImportedMessage(WithKey(id, name))
                               ELSE MessageEntry(heap, refMessages, MessageKey(id, name))
                        /\ SuggestMessage(refMessages', id, name) =
                               IF MessageKey(id, name) \in DOMAIN refMessages'
                               THEN Some(refMessages'[MessageKey(id, name)])
                               ELSE IF name \in DOMAIN refMessages'
                               THEN Some(refMessages'[name])
                               ELSE None
    ]_vars

(* Two imports: the first gave the catalog Brake under 17 with signal C at *)
(* bit 8, the second Brake under 18 with signal C at bit 0.  The bare name *)
(* and the signal name now lead to the second model's entries, 17:Brake to *)
(* the first model's.                                                      *)
C21_Witness ==
    /\ CatalogSession
    /\ {"17:Brake", "18:Brake", "Brake"} \subseteq DOMAIN refMessages
    /\ heap[refMessages["Brake"]].message_id = 18
    /\ heap[refMessages["17:Brake"]].message_id = 17
    /\ SuggestMessage(refMessages, 17, "Brake") = Some(refMessages["17:Brake"])
    /\ SuggestMessage(refMessages, 16, "Brake") = Some(refMessages["18:Brake"])
    /\ "C" \in DOMAIN refSignals
    /\ heap[refSignals["C"]] = InputSignal("C", 0, 1)


-----------------------------------------------------------------------------
(* Frame properties of generate_patch, on the models of SpecDiff. *)

(* C22: generate_patch has no side effects: when the call returns, raw and *)
(* cleaned are what they were before it.                                   *)
C22_GenerateReadsOnly ==
    [][phase = "init" => (raw' = raw /\ cleaned' = cleaned)]_vars

(* generate_patch has returned a document with a remove_message, an        *)
(* update_message_senders and a rule for a signal, for two models that     *)
(* differ.                                                                 *)
C22_Witness ==
    /\ phase = "applying" /\ pc = 1
    /\ raw # cleaned
    /\ \E i \in DOMAIN doc : doc[i].op = Some("remove_message")
    /\ \E i \in DOMAIN doc : doc[i].op = Some("update_message_senders")
    /\ \E i \in DOMAIN doc : doc[i].op = Some("update_signal")
    /\ 17 \in DOMAIN raw


-----------------------------------------------------------------------------
(* Invariants of the model under apply_patch, on the documents of          *)
(* SpecApply.                                                              *)

(* C23: every key of model.messages is the message_id of the message       *)
(* stored under it, in every state of a batch.                             *)
C23_KeyIsMessageId ==
    \A id \in DOMAIN model : model[id].message_id = id

(* add_message for 0x12 took the catalog's Brake, whose id is 0x11: the    *)
(* rule is applied and the message is in the model under 0x11.             *)
C23_Witness ==
    /\ phase = "applying" /\ pc = 2
    /\ doc[1].op = Some("add_message") /\ doc[1].message_id = Some("0x12")
    /\ applied = <<Info(doc[1], None)>>
    /\ DOMAIN model = {16, 17}
    /\ model[17].name = "Brake"


(* The ops of the rules that edit the signals of a message. *)
SignalEditOps ==
    {Some("add_signal_if_missing"), Some("rename_signal"), Some("update_signal"),
     Some("remove_signal")}

(* No message of the model has two signals of the same name. *)
NamesUnique(messages) ==
    \A id \in DOMAIN messages : \A i, j \in DOMAIN messages[id].signals :
        messages[id].signals[i].name = messages[id].signals[j].name => i = j

(* C24: signal names stay unique within each message.  In a batch of       *)
(* add_signal_if_missing, rename_signal, update_signal and remove_signal   *)
(* rules on a model whose messages have no two signals of one name, no     *)
(* state has a message with two signals of the same name.                  *)
C24_SignalNamesUnique ==
    (\A i \in DOMAIN doc : doc[i].op \in SignalEditOps) => NamesUnique(model)


-----------------------------------------------------------------------------
(* Properties of the report of apply_patch, on the documents of SpecApply. *)

(* The rules that the entries of a report list record, in its order. *)
RulesOf(list) == [i \in DOMAIN list |-> list[i].rule]

(* The rules of the document at the positions a filing gives to one list,  *)
(* in document order.                                                      *)
FiledUnder(filing, list) ==
    LET Pick(i) == filing[i] = list
        RECURSIVE Take(_)
        Take(i) == IF i = 0 THEN <<>>
                   ELSE IF Pick(i) THEN Append(Take(i - 1), doc[i]) ELSE Take(i - 1)
    IN  Take(Len(doc))

(* C25: when apply_patch returns, every rule of the document has exactly   *)
(* one entry in the report: the three lists have as many entries together  *)
(* as the document has rules, and the rules can be filed, each under one   *)
(* list, so that every list records its rules in document order.           *)
C25_OneEntryPerRule ==
    phase = "done" =>
        /\ Len(applied) + Len(skipped) + Len(conflicts) = Len(doc)
        /\ \E filing \in [DOMAIN doc -> {"applied", "skipped", "conflicts"}] :
              /\ RulesOf(applied) = FiledUnder(filing, "applied")
              /\ RulesOf(skipped) = FiledUnder(filing, "skipped")
              /\ RulesOf(conflicts) = FiledUnder(filing, "conflicts")

(* apply_patch has returned for a document of two different rules, the     *)
(* first a conflict and the second applied.                                *)
C25_Witness ==
    /\ phase = "done" /\ Len(doc) = 2
    /\ doc[1] # doc[2]
    /\ RulesOf(conflicts) = <<doc[1]>>
    /\ RulesOf(applied) = <<doc[2]>>
    /\ skipped = <<>>


-----------------------------------------------------------------------------
(* Frame properties of the handlers within a batch, on the documents of    *)
(* SpecApply.                                                              *)

(* C26: an applied add_message changes nothing but the inserted id: the    *)
(* model after it has one more message, and every message it had before,   *)
(* with every edit earlier rules of the batch made to it, is as it was.    *)
C26_AddMessageFrame ==
    [][(AtRule({"add_message"}) /\ applied' # applied) =>
        \E inserted \in DOMAIN model' \ DOMAIN model :
            /\ DOMAIN model' = DOMAIN model \cup {inserted}
            /\ \A id \in DOMAIN model : model'[id] = model[id]
    ]_vars


-----------------------------------------------------------------------------
(* Documents whose rules meet every early return of the handlers. *)

(* One rule for each reason a handler has to skip, on a model with message *)
(* 0x10 and without 0x12, and three rules that are applied.                *)
SkipRules ==
    {SignalRule("update_signal", Some("0x12"), Locator(0, 8), None,
                <<[field |-> "scale", from |-> None, to |-> Some(2)]>>, None),
     SignalRule("update_signal", Some("0x10"), Locator(16, 8), None,
                <<[field |-> "scale", from |-> None, to |-> Some(2)]>>, None),
     SignalRule("update_signal", Some("0x10"), None, None,
                <<[field |-> "scale", from |-> None, to |-> Some(2)]>>, None),
     SignalRule("add_signal_if_missing", Some("0x12"), None, Some("C"), <<>>, None),
     SignalRule("add_signal_if_missing", Some("0x10"), None, None, <<>>, Some(PayloadC)),
     SignalRule("add_signal_if_missing", Some("0x10"), None, Some(""), <<>>, None),
     SignalRule("add_signal_if_missing", Some("0x10"), None, Some("A"), <<>>, Some(PayloadC)),
     SignalRule("remove_signal", Some("0x12"), None, Some("A"), <<>>, None),
     SignalRule("remove_signal", Some("0x10"), None, Some("C"), <<>>, None),
     SignalRule("rename_signal", Some("0x12"), Locator(0, 8), Some("C"), <<>>, None),
     SignalRule("rename_signal", Some("0x10"), Locator(16, 8), Some("C"), <<>>, None),
     SignalRule("rename_signal", Some("0x10"), Locator(0, 8), None, <<>>, None),
     SignalRule("update_message_senders", Some("0x12"), None, None,
                <<[field |-> "senders", from |-> None, to |-> Some(<<"N1">>)]>>, None),
     MessageRule("add_message", None, Some("Brake")),
     MessageRule("add_message", Some("0x10"), Some("Brake")),
     MessageRule("remove_message", Some(""), None),
     MessageRule("remove_message", Some("0x12"), None),
     MessageRule("update_message", None, None),
     Rule(Some("update_message"), Some("0x12"), None, None, <<>>, None,
          Some(PayloadEngine), None),
     MessageRule("update_message", Some("0x10"), None),
     MessageRule("frobnicate", Some("0x10"), None),
     SignalRule("rename_signal", Some("0x10"), Locator(0, 8), Some("C"), <<>>, None),
     SignalRule("remove_signal", Some("0x10"), None, Some("A"), <<>>, None),
     MessageRule("remove_message", Some("0x10"), None)}

InitSkips ==
    /\ raw = EmptyMap
    /\ cleaned = EmptyMap
    /\ \E catalog \in Catalogs :
          /\ refSignals = catalog.signals
          /\ refMessages = catalog.messages
    /\ model \in TargetModels
    /\ db = DatabaseOf(model)
    /\ doc \in UNION {[1..k -> SkipRules] : k \in 1..MaxRules}
    /\ pc = 1
    /\ phase = "applying"
    /\ NoReport
    /\ NoObjects

SpecSkips == InitSkips /\ [][NextApply]_vars

(* The reasons of the skipped entries of the report. *)
SkipReasons == {skipped[i].reason : i \in DOMAIN skipped}

(* C27: a rule reported skipped leaves the model exactly as it was before  *)
(* the rule: the step that files a rule under skipped changes neither the  *)
(* messages of the model nor its database, whatever the handler and the    *)
(* reason.                                                                 *)
C27_SkippedLeavesModel ==
    [][(phase = "applying" /\ pc <= Len(doc) /\ Len(skipped') = Len(skipped) + 1) =>
            /\ LastOf(skipped').rule = doc[pc]
            /\ model' = model
            /\ db' = db
    ]_vars

(* After a rename that was applied, a rename without new name was skipped, *)
(* and the signal at bit 0 has the name the first rule gave it.            *)
C27_Witness ==
    /\ phase = "applying" /\ pc = 3
    /\ Len(applied) = 1
    /\ SkipReasons = {Some("new name missing")}
    /\ 16 \in DOMAIN model
    /\ model[16].signals # <<>>
    /\ model[16].signals[1].name = Some("C")


-----------------------------------------------------------------------------
(* Further properties of update_signal, on the rules of SpecUpdate. *)

(* C28: when an update_signal rule is a conflict, the fields of the        *)
(* entries before the first mismatching entry of the changes map hold      *)
(* their "to" values after the rule: a conflict does not leave the signal  *)
(* as it was.                                                              *)
C28_ConflictKeepsEarlierWrites ==
    [][UpdateFinds =>
        LET rule == doc[pc]
            id == MessageById(rule)
            i == FindSignalByMatch(model[id], Val(rule.signal_match))
            before == model[id].signals[i]
            after == model'[id].signals[i]
        IN  \A k \in DOMAIN rule.changes :
                (/\ Mismatch(before, rule.changes[k])
                 /\ \A j \in 1..(k - 1) : ~Mismatch(before, rule.changes[j])) =>
                    /\ Len(conflicts') = Len(conflicts) + 1
                    /\ LastOf(conflicts').rule = rule
                    /\ \A j \in 1..(k - 1) :
                           GetAttr(after, rule.changes[j].field) = rule.changes[j].to
    ]_vars

(* A conflict has been reported on the second of two entries, and the      *)
(* field of the first entry holds its "to", which it did not hold when the *)
(* model was loaded.                                                       *)
C28_Witness ==
    /\ phase = "applying" /\ pc = 2 /\ Len(conflicts) = 1
    /\ Len(doc[1].changes) = 2
    /\ doc[1].signal_match # None
    /\ doc[1].changes[1].field = "unit"
    /\ doc[1].changes[1].to = Some("km")
    /\ doc[1].changes[2].field = "gain"
    /\ doc[1].changes[2].from = Some(5)
    /\ model[16].signals = <<WithUnit(InputSignal("A", 0, 1), Some("km"))>>
    /\ db = DatabaseOf(InputModel(<<InputSignal("A", 0, 1)>>, FALSE))


(* The catalog by value: every entry of its two maps. *)
CatalogValue(h, signals, messages) ==
    [signals |-> [n \in DOMAIN signals |-> h[signals[n]]],
     messages |-> [k \in DOMAIN messages |-> MessageValue(h, messages[k])]]

(* C29: the catalog is isolated from the models.  A step that is not an    *)
(* import (a load, or a write of the applier to the objects of a model,    *)
(* the model the entries were imported from and the signals copied from    *)
(* an entry included) leaves every entry of the catalog with the value it  *)
(* had.                                                                    *)
C29_CatalogIsolated ==
    [][~Imported =>
        CatalogValue(heap', refSignals', refMessages') =
            CatalogValue(heap, refSignals, refMessages)
    ]_vars

(* The catalog holds C at bit 8 with scale 2.  In the model, message 0x12  *)
(* has a signal renamed to B and a copy of the catalog's C whose scale a   *)
(* later rule set to 5; the entry of C and the signal of the entry         *)
(* 17:Brake are as imported.                                               *)
C29_Witness ==
    /\ CatalogSession
    /\ DOMAIN model = {18}
    /\ MessageValue(heap, model[18]).signals =
           <<[InputSignal("C", 0, 1) EXCEPT !.name = Some("B")],
             [InputSignal("C", 8, 2) EXCEPT !.scale = Some(5)]>>
    /\ SignalEntry(heap, refSignals, "C") = Some(InputSignal("C", 8, 2))
    /\ "17:Brake" \in DOMAIN refMessages
    /\ MessageValue(heap, refMessages["17:Brake"]).signals = <<InputSignal("C", 8, 2)>>


-----------------------------------------------------------------------------
(* update_signal and rename_signal on messages in which several signals    *)
(* have the same start_bit and length.                                     *)

WithByteOrder(signal, byte_order) == [signal EXCEPT !.byte_order = Some(byte_order)]

(* Message 0x10 as loaded, its signals in the order of _normalize_signals. *)
LocatorModels ==
    {InputModel(s, FALSE) :
        s \in {<<InputSignal("A", 0, 1), WithByteOrder(InputSignal("B", 0, 1), "motorola"),
                 InputSignal("C", 8, 1)>>,
               <<WithByteOrder(InputSignal("A", 0, 1), "motorola"), InputSignal("B", 0, 1)>>,
               <<InputSignal("A", 8, 1), InputSignal("B", 8, 2), InputSignal("C", 8, 1)>>,
               <<InputSignal("A", 0, 1), InputSignal("B", 8, 1)>>}}

(* The locators of the rules: bit 0, bit 8, a position without signal, and *)
(* a locator that has no length.                                           *)
RuleLocators ==
    {Locator(0, 8), Locator(8, 8), Locator(16, 8), Some([start_bit |-> Some(0)])}

LocatorRules ==
    {SignalRule("update_signal", Some("0x10"), loc, None,
                <<[field |-> "scale", from |-> None, to |-> Some(7)]>>, None) :
        loc \in RuleLocators}
    \cup
    {SignalRule("rename_signal", Some("0x10"), loc, Some("C"), <<>>, None) :
        loc \in RuleLocators}

InitLocator ==
    /\ raw = EmptyMap
    /\ cleaned = EmptyMap
    /\ refSignals = EmptyMap
    /\ refMessages = EmptyMap
    /\ model \in LocatorModels
    /\ db = DatabaseOf(model)
    /\ doc \in UNION {[1..k -> LocatorRules] : k \in 1..MaxRules}
    /\ pc = 1
    /\ phase = "applying"
    /\ NoReport
    /\ NoObjects

NextLocator ==
    \/ HandleUpdateSignal
    \/ HandleRenameSignal
    \/ UpdateDatabaseFromModel

SpecLocator == InitLocator /\ [][NextLocator]_vars

(* The positions in the message of the signals whose start_bit and length  *)
(* are the locator's.                                                      *)
SharingLocator(message, match) ==
    {k \in DOMAIN message.signals :
        /\ message.signals[k].start_bit = Get(match, "start_bit")
        /\ message.signals[k].length = Get(match, "length")}

(* The signal as the rule leaves it: renamed, or with the "to" of the      *)
(* rule's one entry.                                                       *)
Edited(signal, rule) ==
    IF rule.op = Some("rename_signal") THEN [signal EXCEPT !.name = rule.signal_name]
    ELSE SetAttr(signal, rule.changes[1].field, rule.changes[1].to)

(* C30: update_signal and rename_signal act on the first signal, in the    *)
(* order of the message, whose start_bit and length are the locator's,     *)
(* whatever its byte order and name: that signal is edited, every other    *)
(* signal of the model is as it was, and without such a signal the rule is *)
(* skipped.                                                                *)
C30_LocatorSelectsFirst ==
    [][(AtRule({"update_signal", "rename_signal"}) /\ MessageById(doc[pc]) \in DOMAIN model) =>
        LET rule == doc[pc]
            id == MessageById(rule)
            sharing == SharingLocator(model[id], Val(rule.signal_match))
            first == CHOOSE k \in sharing : \A j \in sharing : k <= j
        IN  IF sharing = {}
            THEN /\ skipped' = Append(skipped, Info(rule, Some("signal missing")))
                 /\ model' = model
            ELSE /\ ReportsApplied
                 /\ model' = [model EXCEPT ![id].signals[first] = Edited(@, rule)]
    ]_vars

(* The first rule set the scale of the signal at bit 0, length 8: of the   *)
(* two signals there, A has the new scale and B, of the other byte order,  *)
(* is as loaded.                                                           *)
C30_Witness ==
    /\ phase = "applying" /\ pc = 2
    /\ doc[1].op = Some("update_signal")
    /\ applied = <<Info(doc[1], None)>>
    /\ model[16].signals =
           <<[InputSignal("A", 0, 1) EXCEPT !.scale = Some(7)],
             WithByteOrder(InputSignal("B", 0, 1), "motorola"),
             InputSignal("C", 8, 1)>>

=============================================================================
